---- MODULE Spec2Model ----
(***************************************************************************)
(* A model of the connection manager (MongoDBManager), the retry-wrapped   *)
(* operation executor (MongoCRUD._execute_operation) and the principal     *)
(* reconciler (MongoDBUserAdmin.manage_user) of PostgresToMongoETL.        *)
(*                                                                         *)
(* Every call into the document-store client (MongoClient(...), ping, a    *)
(* collection verb, an administrative command) is one step whose outcome   *)
(* is drawn from the outcomes the client can produce.  The callers are     *)
(* threads; a thread is at a program location pc[t] inside a stack of      *)
(* frames stk[t], one frame per function of the source that is on the      *)
(* Python call stack and handles exceptions.                               *)
(***************************************************************************)
EXTENDS Integers, Sequences, FiniteSets, TLC

\* Python's None where a name is expected, and where an object is expected
None == "None"
NoId == 0

(***************************************************************************)
(* Bounds of the model.                                                    *)
(***************************************************************************)
\* handles MongoClient(...) may build in one behaviour
MaxHandles == 3
\* manager instances __new__ may allocate in one behaviour
MaxInst == 2
\* top-level calls the caller may start in one behaviour (one thread)
MaxCalls == 3
\* top-level calls each thread may start in one behaviour (concurrent threads)
MaxSharedCalls == 1
\* manage_user calls the caller may start in one behaviour (one thread)
MaxAdminCalls == 2
\* calls of the MongoDBUserManager methods the threads may start in one behaviour
MaxAccountCalls == 2
\* runs of transfer_data in one behaviour
MaxTransfers == 2
\* runs of transfer_data over changing tables in one behaviour
MaxLiveTransfers == 1
\* calls of the create and update paths in one behaviour
MaxCrudCalls == 2

Threads == {"t1", "t2"}
Configs == {"cfgA", "cfgB"}
Verbs == {"insert_one", "find_one"}
Colls == {"users"}
\* manage_user: the action argument ("grant" is none of the four), the names,
\* the passwords (None: not given) and the role lists (<<>>: not given or empty)
Actions == {"create", "update", "ensure_exists", "delete", "grant"}
Usernames == {"app"}
Passwords == {None, "pw1", "pw2"}
RoleLists == {<<>>, <<"read">>, <<"readWrite">>}

(***************************************************************************)
(* Failure kinds.  pymongo.errors: AutoReconnect, NetworkTimeout and       *)
(* ServerSelectionTimeoutError are subclasses of ConnectionFailure; all of *)
(* them, OperationFailure and ConfigurationError are PyMongoError.         *)
(* TypeError and AttributeError are Python's; "Exception" is the bare      *)
(* Exception the give-up handlers raise; MongoDBCrudError derives from     *)
(* Exception, not from PyMongoError.                                       *)
(***************************************************************************)
ConnectionFailures ==
    {"ConnectionFailure", "AutoReconnect", "NetworkTimeout", "ServerSelectionTimeoutError"}
\* OperationFailure with code 13 or 18: not authorized / authentication failed
AuthFailure == "OperationFailure(13)"
\* OperationFailure with code 51003: the user the command creates exists already
UserExistsFailure == "OperationFailure(51003)"
\* OperationFailure with code 11: the user the command names is not found
UserNotFoundFailure == "OperationFailure(11)"
OperationFailures == {AuthFailure, UserExistsFailure, UserNotFoundFailure}
PyMongoErrors == ConnectionFailures \cup OperationFailures \cup {"ConfigurationError"}
\* what a call into the client raises in this model: a retryable failure of
\* the base class and one of a subclass, an authorization failure, and an
\* exception that is no PyMongoError
ClientFailures == {"ConnectionFailure", "ServerSelectionTimeoutError", AuthFailure, "TypeError"}
\* the outcomes of one call into the client
OK == "ok"
Outcomes == {OK} \cup ClientFailures
\* the outcomes drawn where threads run concurrently
SharedOutcomes == {OK, "ConnectionFailure"}

\* isinstance(e, PyMongoError)
IsPyMongoError(e) == e \in PyMongoErrors

\* isinstance(e, (ConnectionFailure, NetworkTimeout, ServerSelectionTimeoutError))
IsManagerRetryable(e) == e \in ConnectionFailures

\* max_tries of the three backoff.on_exception decorators
max_tries == 3

VARIABLES
    instance,   \* MongoDBManager._instance: NoId or an instance id
    lock,       \* MongoDBManager._lock: None or the thread holding it
    inst,       \* instance id -> the instance's fields (exists: allocated)
    handles,    \* the MongoClient objects built so far, in order
    pc,         \* thread -> program location
    stk,        \* thread -> frames on the call stack, innermost last
    call,       \* thread -> the top-level call in progress, or the last one
    res,        \* thread -> result of the last finished top-level call
    cnt,        \* thread -> what the call in progress did so far
    ncalls,     \* thread -> number of top-level calls started
    known,      \* the instances a constructor call has returned to a caller
    faulted,    \* whether a call into the client failed on the way so far
    users,      \* the server's users: username -> present, pwd, roles
    collection, \* the "users" collection: its documents in order, and whether
                \* the unique index on username exists
    target,     \* the target collections of the transfer: table name -> documents
    pipe,       \* PostgresToMongoTranslator.transfer_data: its locals, the state
                \* of its PostgreSQL connection, and what it fetched and passed on
    orch        \* the Orchestrator: what its constructor has called and its
                \* _mongo_db_config, _mongo_db_manager, _db, _user_manager fields

vars == <<instance, lock, inst, handles, pc, stk, call, res, cnt, ncalls, known, faulted,
          users, collection, target, pipe, orch>>

InstIds == 1..MaxInst

NoInst == [exists |-> FALSE, is_temporary |-> FALSE, initialized |-> FALSE,
           db_config |-> None, client |-> NoId, db |-> NoId,
           operation_history |-> <<>>]

\* a user the server does not have
NoUser == [present |-> FALSE, pwd |-> None, roles |-> <<>>]
UserStates ==
    {NoUser} \cup {[present |-> TRUE, pwd |-> p, roles |-> r] :
                      p \in Passwords \ {None}, r \in RoleLists \ {<<>>}}

\* the "users" collection before anything is stored or indexed
NoCollection == [docs |-> <<>>, unique |-> FALSE]

\* the tables of the PostgreSQL database (schema public)
TableNames == {"a", "b"}
\* the target collections before any transfer
NoTarget == [c \in TableNames |-> <<>>]
\* transfer_data is not running: no connection, nothing fetched
NoPipe == [pg |-> "none", tables |-> <<>>, ti |-> 0, total_rows |-> 0, offset |-> 0,
           batch_size |-> 0, documents |-> <<>>, pending |-> None,
           fetched |-> <<>>, passed |-> <<>>]

\* no Orchestrator has been constructed; once one is, the calls its constructor
\* made, its fields (NoId, None: unset) and, while one of its connect methods
\* runs, the step it is at
NoOrch == [exists |-> FALSE, made |-> <<>>, mongo_db_config |-> None,
           mongo_db_manager |-> NoId, db |-> [client |-> NoId, name |-> None],
           user_manager |-> NoId, step |-> "none"]

\* manage_user: result = {'success': False, 'created': False, 'updated': False,
\* 'deleted': False}, and the 'message' the call may add
NoResult == [success |-> FALSE, created |-> FALSE, updated |-> FALSE, deleted |-> FALSE,
             message |-> None]

\* a call's arguments; of a manage_user call also the users the server had when
\* the call began (before) and how the same thread's previous call ended when it
\* was this very call (prev: "none", or "returned", "succeeded", "raised")
NoCall == [op |-> "none", self |-> NoId, cfg |-> None, temporary |-> FALSE,
           verb |-> None, coll |-> None,
           action |-> None, username |-> None, password |-> None, roles |-> <<>>,
           before |-> [u \in Usernames |-> NoUser], prev |-> "none",
           email |-> None, role |-> None, active |-> TRUE, metadata |-> None,
           salt |-> None, update_data |-> <<>>, upsert |-> FALSE, arg |-> <<>>]
\* truth: the bool a MongoDBUserManager method has returned
NoRes == [kind |-> "none", exc |-> None, cause |-> None, value |-> NoId,
          verb |-> None, coll |-> None, result |-> NoResult, truth |-> FALSE,
          sent |-> <<>>]
\* cnt[t] is the sequence of what the call in progress did: [op |-> "build"
\* (MongoClient(...)), "ping", "call" (the collection verb) or "wait" (a backoff
\* sleep), out |-> its outcome]
NoCnt == <<>>
Did(op, o) == [op |-> op, out |-> o]

Init ==
    /\ instance = NoId
    /\ lock = None
    /\ inst = [i \in InstIds |-> NoInst]
    /\ handles = <<>>
    /\ pc = [t \in Threads |-> "idle"]
    /\ stk = [t \in Threads |-> <<>>]
    /\ call = [t \in Threads |-> NoCall]
    /\ res = [t \in Threads |-> NoRes]
    /\ cnt = [t \in Threads |-> NoCnt]
    /\ ncalls = [t \in Threads |-> 0]
    /\ known = {}
    /\ faulted = FALSE
    /\ users = [u \in Usernames |-> NoUser]
    /\ collection = NoCollection
    /\ target = NoTarget
    /\ pipe = NoPipe
    /\ orch = NoOrch

(***************************************************************************)
(* Exceptions.  A frame is [f |-> function, tries |-> attempt number of    *)
(* its backoff decorator]; the frame of manage_user holds its action      *)
(* argument and its local user_exists as well.                             *)
(***************************************************************************)
Frame(f) == [f |-> f, tries |-> 1, action |-> None, user_exists |-> FALSE]

\* backoff.on_exception(backoff.expo, <retryable>, max_tries=3, giveup=<giveup>):
\* what the decorator does with the exception e of attempt number tries.
\* retryable: isinstance(e, <retryable>).  The decorator evaluates giveup(e)
\* before it looks at the number of tries; giveupRaises is the exception the
\* giveup callable raises when called with e alone, None when it returns False.
Backoff(retryable, giveupRaises, e, tries) ==
    IF ~retryable THEN [act |-> "raise", exc |-> e]
    ELSE IF giveupRaises # None THEN [act |-> "raise", exc |-> giveupRaises]
    ELSE IF tries >= max_tries THEN [act |-> "raise", exc |-> e]
    ELSE [act |-> "wait", exc |-> None]

\* the decorator of _initialize_client: no giveup argument
InitializeClientBackoff(e, tries) == Backoff(IsManagerRetryable(e), None, e, tries)

\* give_up_handler(details) is handed to the decorator as giveup=: called with
\* the exception, it logs and raises a bare Exception
give_up_handler == "Exception"

\* the decorator of get_client: giveup=give_up_handler
GetClientBackoff(e, tries) == Backoff(IsManagerRetryable(e), give_up_handler, e, tries)

\* the try/except inside _execute_operation: a PyMongoError is re-raised as
\* MongoDBCrudError(...) from e
ExecuteOperationExcept(e) == IF IsPyMongoError(e) THEN "MongoDBCrudError" ELSE e

\* MongoCRUD._give_up_handler(self, details) is handed to the decorator as a
\* plain function: called with the exception alone it raises TypeError
\* (missing argument 'details')
crud_give_up_handler == "TypeError"

\* the decorator of _execute_operation: retries PyMongoError, giveup=_give_up_handler
ExecuteOperationBackoff(e, tries) ==
    Backoff(IsPyMongoError(e), crud_give_up_handler, e, tries)

\* user_exists as it would be if its except clause re-raised every exception
UserExistsExcept_Never(e) == FALSE

\* user_exists, except errors.OperationFailure: whether e is swallowed (the
\* function returns False)
UserExistsExcept(e) == e = AuthFailure

\* manage_user, except errors.OperationFailure: the message the handler puts into
\* result when it swallows e and the call returns result; None when it re-raises
ManageUserExcept(e, action) ==
    IF e = UserExistsFailure /\ action = "create" THEN "User already exists"
    ELSE IF e = UserNotFoundFailure /\ action \in {"update", "ensure_exists", "delete"}
    THEN "User not found"
    ELSE None

\* An exception e (with underlying cause c) travels up the stack s: the state the
\* thread continues in.  pc "wait": the decorator of the innermost frame of stk
\* sleeps and retries; pc "idle": the exception left the top-level call, or
\* (exc None) the top-level call has swallowed it and returns msg in its result;
\* pc "mu_dispatch": user_exists has swallowed it and returns False.
RECURSIVE Unwind(_, _, _)
Unwind(s, e, c) ==
    IF s = <<>> THEN [stk |-> <<>>, pc |-> "idle", exc |-> e, cause |-> c, msg |-> None]
    ELSE
      LET top == s[Len(s)]
          below == SubSeq(s, 1, Len(s) - 1)
          Decide(d, e1, c1) ==
              IF d.act = "wait"
              THEN [stk |-> s, pc |-> "wait", exc |-> None, cause |-> None, msg |-> None]
              ELSE Unwind(below, d.exc, IF d.exc = e1 THEN c1 ELSE e1)
      IN CASE top.f = "_initialize_client" ->
                Decide(InitializeClientBackoff(e, top.tries), e, c)
           [] top.f = "get_client" ->
                Decide(GetClientBackoff(e, top.tries), e, c)
           [] top.f = "_execute_operation" ->
                LET e1 == ExecuteOperationExcept(e)
                    c1 == IF e1 = e THEN c ELSE e
                IN Decide(ExecuteOperationBackoff(e1, top.tries), e1, c1)
           [] top.f = "user_exists" ->
                IF UserExistsExcept(e)
                THEN [stk |-> [below EXCEPT ![Len(below)].user_exists = FALSE],
                      pc |-> "mu_dispatch", exc |-> None, cause |-> None, msg |-> None]
                ELSE Unwind(below, e, c)
           [] top.f = "manage_user" ->
                IF ManageUserExcept(e, top.action) # None
                THEN [stk |-> <<>>, pc |-> "idle", exc |-> None, cause |-> None,
                      msg |-> ManageUserExcept(e, top.action)]
                ELSE Unwind(below, e, c)
           \* verify_connection logs and re-raises; __init__ catches nothing
           [] OTHER -> Unwind(below, e, c)

(***************************************************************************)
(* Helpers of the actions.                                                 *)
(***************************************************************************)
Self(t) == call[t].self

\* the innermost frame's function
TopF(s) == IF s = <<>> THEN None ELSE s[Len(s)].f

Pop(s) == SubSeq(s, 1, Len(s) - 1)

\* a top-level call of thread t begins
Begin(t, c) ==
    /\ pc[t] = "idle"
    /\ call' = [call EXCEPT ![t] = c]
    /\ ncalls' = [ncalls EXCEPT ![t] = @ + 1]
    /\ res' = [res EXCEPT ![t] = IF c.op = "close" THEN [NoRes EXCEPT !.kind = "ok"]
                                 ELSE NoRes]
    /\ cnt' = [cnt EXCEPT ![t] = NoCnt]

\* the top-level call of thread t returns value v
Return(t, v) ==
    /\ pc' = [pc EXCEPT ![t] = "idle"]
    /\ stk' = [stk EXCEPT ![t] = <<>>]
    /\ res' = [res EXCEPT ![t] = [NoRes EXCEPT !.kind = "ok", !.value = v]]

\* exception e is raised in the innermost frame of thread t
Raise(t, e) ==
    LET u == Unwind(stk[t], e, None)
    IN /\ pc' = [pc EXCEPT ![t] = u.pc]
       /\ stk' = [stk EXCEPT ![t] = u.stk]
       /\ res' = [res EXCEPT ![t] =
                    IF u.pc = "idle" /\ u.exc = None
                    THEN [NoRes EXCEPT !.kind = "ok",
                                       !.result = [NoResult EXCEPT !.message = u.msg]]
                    ELSE IF u.pc = "idle"
                    THEN [NoRes EXCEPT
                            !.kind = "error", !.exc = u.exc, !.cause = u.cause,
                            \* the message of MongoDBCrudError names both
                            !.verb = IF u.exc = "MongoDBCrudError" THEN call[t].verb ELSE None,
                            !.coll = IF u.exc = "MongoDBCrudError" THEN call[t].coll ELSE None]
                    ELSE @]

\* the innermost frame of thread t returns normally
\*   _initialize_client returns into verify_connection or get_client (before the ping),
\*   get_client returns into _execute_operation (_get_collection), into
\*   manage_user (before the probe), into user_exists (before usersInfo) or to
\*   the caller
ReturnFrame(t) ==
    LET f == TopF(stk[t])
        below == Pop(stk[t])
    IN IF below = <<>>
       THEN Return(t, inst[Self(t)].client)
       ELSE /\ stk' = [stk EXCEPT ![t] = below]
            /\ pc' = [pc EXCEPT ![t] =
                        CASE TopF(below) = "verify_connection" -> "vc_ping"
                          [] TopF(below) = "get_client" -> "gc_ping"
                          [] TopF(below) = "manage_user" -> "mu_probe"
                          [] TopF(below) = "user_exists" -> "ue_command"
                          [] OTHER -> "ex_call"]
            /\ res' = res

\* the first instance id not allocated yet
FreeInst ==
    IF \E i \in InstIds : ~inst[i].exists
    THEN CHOOSE i \in InstIds : ~inst[i].exists /\ \A j \in InstIds : j < i => inst[j].exists
    ELSE NoId

(***************************************************************************)
(* MongoDBManager(config, temporary): __new__, then __init__.              *)
(***************************************************************************)
\* __new__ as it would be without the `is None` test: every call allocates
NeedsNewInstance_Always(temporary, current) == TRUE

\* __new__: whether a new object is allocated, given `temporary` and cls._instance
NeedsNewInstance(temporary, current) == temporary \/ current = NoId

\* `with cls._lock:` can be entered
CanAcquire(l) == l = None

\* MongoDBManager(c) or MongoDBManager(c, temporary=True) / create_temporary_instance(c)
\* is called; a temporary instance is allocated at once, without the lock
StartConstruct(t, c, temporary) ==
    /\ temporary => FreeInst # NoId
    /\ Begin(t, [NoCall EXCEPT !.op = "construct", !.cfg = c, !.temporary = temporary,
                               !.self = IF temporary THEN FreeInst ELSE NoId])
    /\ stk' = [stk EXCEPT ![t] = <<Frame("__init__")>>]
    /\ pc' = [pc EXCEPT ![t] = IF temporary THEN "init" ELSE "new_lock"]
    /\ inst' = IF temporary
               THEN [inst EXCEPT ![FreeInst] = [NoInst EXCEPT !.exists = TRUE,
                                                              !.is_temporary = TRUE]]
               ELSE inst
    /\ UNCHANGED <<instance, lock, handles, known, faulted, users, collection,
                   target, pipe, orch>>

\* __new__: with cls._lock
NewLock(t) ==
    /\ pc[t] = "new_lock"
    /\ CanAcquire(lock)
    /\ lock' = t
    /\ pc' = [pc EXCEPT ![t] = "new_check"]
    /\ UNCHANGED <<instance, inst, handles, stk, call, res, cnt, ncalls, known, faulted,
                   users, collection, target, pipe, orch>>

\* __new__: if cls._instance is None
NewCheck(t) ==
    /\ pc[t] = "new_check"
    /\ pc' = [pc EXCEPT ![t] = IF NeedsNewInstance(FALSE, instance)
                               THEN "new_create" ELSE "new_unlock"]
    /\ UNCHANGED <<instance, lock, inst, handles, stk, call, res, cnt, ncalls, known, faulted,
                   users, collection, target, pipe, orch>>

\* __new__: cls._instance = super().__new__(cls); cls._instance._is_temporary = False
NewCreate(t) ==
    /\ pc[t] = "new_create"
    /\ FreeInst # NoId
    /\ instance' = FreeInst
    /\ inst' = [inst EXCEPT ![FreeInst] = [NoInst EXCEPT !.exists = TRUE]]
    /\ pc' = [pc EXCEPT ![t] = "new_unlock"]
    /\ UNCHANGED <<lock, handles, stk, call, res, cnt, ncalls, known, faulted, users,
                   collection, target, pipe, orch>>

\* __new__: the with block ends; return cls._instance
NewUnlock(t) ==
    /\ pc[t] = "new_unlock"
    /\ lock' = IF lock = t THEN None ELSE lock
    /\ call' = [call EXCEPT ![t].self = instance]
    /\ pc' = [pc EXCEPT ![t] = "init"]
    /\ UNCHANGED <<instance, inst, handles, stk, res, cnt, ncalls, known, faulted, users,
                   collection, target, pipe, orch>>

\* __init__: the early return of an initialised singleton; otherwise the fields
\* are (re)set and verify_connection() calls _initialize_client()
InitFields(t) ==
    LET i == Self(t) IN
    /\ pc[t] = "init"
    /\ IF inst[i].initialized /\ ~inst[i].is_temporary
       THEN /\ Return(t, i)
            /\ known' = known \cup {i}
            /\ inst' = inst
       ELSE /\ inst' = [inst EXCEPT ![i] = [@ EXCEPT !.db_config = call[t].cfg,
                                                     !.client = NoId, !.db = NoId,
                                                     !.operation_history = <<>>,
                                                     !.initialized = FALSE]]
            /\ stk' = [stk EXCEPT ![t] = stk[t] \o <<Frame("verify_connection"),
                                                      Frame("_initialize_client")>>]
            /\ pc' = [pc EXCEPT ![t] = "ic_check"]
            /\ UNCHANGED <<res, known>>
    /\ UNCHANGED <<instance, lock, handles, call, cnt, ncalls, faulted, users, collection,
                   target, pipe, orch>>

(***************************************************************************)
(* _initialize_client                                                      *)
(***************************************************************************)
\* if not self._client
InitializeClientCheck(t) ==
    /\ pc[t] = "ic_check"
    /\ IF inst[Self(t)].client = NoId
       THEN /\ pc' = [pc EXCEPT ![t] = "ic_build"]
            /\ UNCHANGED <<stk, res>>
       ELSE ReturnFrame(t)
    /\ UNCHANGED <<instance, lock, inst, handles, call, cnt, ncalls, known, faulted, users,
                   collection, target, pipe, orch>>

\* self._client = MongoClient(connection_string, **client_options);
\* self._db = self._client[self.db_config.database]
InitializeClientBuild(t, o) ==
    LET i == Self(t)
        h == Len(handles) + 1
    IN
    /\ pc[t] = "ic_build"
    /\ cnt' = [cnt EXCEPT ![t] = Append(@, Did("build", o))]
    /\ IF o = OK
       THEN /\ h <= MaxHandles
            /\ handles' = Append(handles, [inst |-> i, cfg |-> inst[i].db_config,
                                           as_configured |-> TRUE, closed |-> FALSE])
            /\ inst' = [inst EXCEPT ![i] = [@ EXCEPT !.client = h, !.db = h]]
            /\ ReturnFrame(t)
            /\ UNCHANGED faulted
       ELSE /\ Raise(t, o)
            /\ faulted' = TRUE
            /\ UNCHANGED <<inst, handles>>
    /\ UNCHANGED <<instance, lock, call, ncalls, known, users, collection, target, pipe, orch>>

\* the decorator of the innermost frame sleeps (time.sleep) and calls the
\* function again
BackoffWait(t) ==
    /\ pc[t] = "wait"
    /\ stk' = [stk EXCEPT ![t] = [@ EXCEPT ![Len(@)].tries = @ + 1]]
    /\ cnt' = [cnt EXCEPT ![t] = Append(@, Did("wait", OK))]
    /\ pc' = [pc EXCEPT ![t] = CASE TopF(stk[t]) = "_initialize_client" -> "ic_check"
                                 [] TopF(stk[t]) = "get_client" -> "gc_check"
                                 [] OTHER -> "ex_get"]
    /\ UNCHANGED <<instance, lock, inst, handles, call, res, ncalls, known, faulted, users,
                   collection, target, pipe, orch>>

(***************************************************************************)
(* verify_connection                                                       *)
(***************************************************************************)
\* self._client.admin.command('ping'); on success verify_connection returns
\* True and __init__ sets self._initialized = True
VerifyConnectionPing(t, o) ==
    LET i == Self(t) IN
    /\ pc[t] = "vc_ping"
    /\ cnt' = [cnt EXCEPT ![t] = Append(@, Did("ping", IF inst[i].client = NoId
                                                       THEN "AttributeError" ELSE o))]
    /\ IF inst[i].client = NoId
       THEN /\ Raise(t, "AttributeError")
            /\ UNCHANGED <<inst, known, faulted>>
       ELSE IF o = OK
       THEN /\ inst' = [inst EXCEPT ![i].initialized = TRUE]
            /\ Return(t, i)
            /\ known' = known \cup {i}
            /\ UNCHANGED faulted
       ELSE /\ Raise(t, o)
            /\ faulted' = TRUE
            /\ UNCHANGED <<inst, known>>
    /\ UNCHANGED <<instance, lock, handles, call, ncalls, users, collection, target, pipe, orch>>

(***************************************************************************)
(* get_client                                                              *)
(***************************************************************************)
\* manager.get_client() is called on an instance a constructor returned
StartGetClient(t, i) ==
    /\ i \in known
    /\ Begin(t, [NoCall EXCEPT !.op = "get_client", !.self = i])
    /\ stk' = [stk EXCEPT ![t] = <<Frame("get_client")>>]
    /\ pc' = [pc EXCEPT ![t] = "gc_check"]
    /\ UNCHANGED <<instance, lock, inst, handles, known, faulted, users, collection,
                   target, pipe, orch>>

\* if not self._client: self._initialize_client()
GetClientCheck(t) ==
    /\ pc[t] = "gc_check"
    /\ IF inst[Self(t)].client = NoId
       THEN /\ stk' = [stk EXCEPT ![t] = Append(@, Frame("_initialize_client"))]
            /\ pc' = [pc EXCEPT ![t] = "ic_check"]
       ELSE /\ pc' = [pc EXCEPT ![t] = "gc_ping"]
            /\ stk' = stk
    /\ UNCHANGED <<instance, lock, inst, handles, call, res, cnt, ncalls, known, faulted,
                   users, collection, target, pipe, orch>>

\* self._client.admin.command('ping'); return self._client
\* (into get_database: if not self._db: self._db = client[...])
GetClientPing(t, o) ==
    LET i == Self(t) IN
    /\ pc[t] = "gc_ping"
    /\ cnt' = [cnt EXCEPT ![t] = Append(@, Did("ping", IF inst[i].client = NoId
                                                       THEN "AttributeError" ELSE o))]
    /\ IF inst[i].client = NoId
       THEN /\ Raise(t, "AttributeError")
            /\ UNCHANGED <<inst, faulted>>
       ELSE IF o = OK
       THEN /\ ReturnFrame(t)
            /\ inst' = [inst EXCEPT ![i].db = IF @ = NoId /\ Len(stk[t]) > 1
                                              THEN inst[i].client ELSE @]
            /\ UNCHANGED faulted
       ELSE /\ Raise(t, o)
            /\ faulted' = TRUE
            /\ UNCHANGED inst
    /\ UNCHANGED <<instance, lock, handles, call, ncalls, known, users, collection,
                   target, pipe, orch>>

(***************************************************************************)
(* MongoCRUD._execute_operation                                            *)
(***************************************************************************)
\* crud._execute_operation(verb, coll) is called, the crud object built on an
\* instance a constructor returned
StartExecuteOperation(t, i, verb, coll) ==
    /\ i \in known
    /\ Begin(t, [NoCall EXCEPT !.op = "execute", !.self = i, !.verb = verb, !.coll = coll])
    /\ stk' = [stk EXCEPT ![t] = <<Frame("_execute_operation")>>]
    /\ pc' = [pc EXCEPT ![t] = "ex_get"]
    /\ UNCHANGED <<instance, lock, inst, handles, known, faulted, users, collection,
                   target, pipe, orch>>

\* collection = self._get_collection(collection_name, database_name):
\* get_collection -> get_database -> get_client
ExecuteOperationGetCollection(t) ==
    /\ pc[t] = "ex_get"
    /\ stk' = [stk EXCEPT ![t] = Append(@, Frame("get_client"))]
    /\ pc' = [pc EXCEPT ![t] = "gc_check"]
    /\ UNCHANGED <<instance, lock, inst, handles, call, res, cnt, ncalls, known, faulted,
                   users, collection, target, pipe, orch>>

\* method = getattr(collection, method_name); return method(**kwargs)
ExecuteOperationCall(t, o) ==
    /\ pc[t] = "ex_call"
    /\ cnt' = [cnt EXCEPT ![t] = Append(@, Did("call", o))]
    /\ IF o = OK
       THEN /\ Return(t, NoId)
            /\ UNCHANGED faulted
       ELSE /\ Raise(t, o)
            /\ faulted' = TRUE
    /\ UNCHANGED <<instance, lock, inst, handles, call, ncalls, known, users, collection,
                   target, pipe, orch>>

(***************************************************************************)
(* close_connection                                                        *)
(***************************************************************************)
\* close_connection as it would be if it closed the client and kept the fields
CloseConnection_KeepsFields(t, i) ==
    /\ i \in known
    /\ Begin(t, [NoCall EXCEPT !.op = "close", !.self = i,
                                !.prev = IF call[t].op = "close" /\ call[t].self = i
                                         THEN "returned" ELSE "none"])
    /\ IF inst[i].client # NoId
       THEN /\ handles' = [handles EXCEPT ![inst[i].client].closed = TRUE]
            /\ inst' = inst
       ELSE UNCHANGED <<handles, inst>>
    /\ UNCHANGED <<instance, lock, pc, stk, known, faulted, users, collection,
                   target, pipe, orch>>

\* if self._client: self._client.close(); self._client = None; self._db = None
\* (prev: "returned" when the thread's previous call was close_connection on
\* the same manager)
CloseConnection(t, i) ==
    /\ i \in known
    /\ Begin(t, [NoCall EXCEPT !.op = "close", !.self = i,
                                !.prev = IF call[t].op = "close" /\ call[t].self = i
                                         THEN "returned" ELSE "none"])
    /\ IF inst[i].client # NoId
       THEN /\ handles' = [handles EXCEPT ![inst[i].client].closed = TRUE]
            /\ inst' = [inst EXCEPT ![i] = [@ EXCEPT !.client = NoId, !.db = NoId]]
       ELSE UNCHANGED <<handles, inst>>
    /\ UNCHANGED <<instance, lock, pc, stk, known, faulted, users, collection,
                   target, pipe, orch>>

(***************************************************************************)
(* MongoDBUserAdmin.manage_user                                            *)
(***************************************************************************)
\* `not password` as it would be if the test were left out
NoPassword_Never(password) == FALSE

\* `not password`
NoPassword(password) == password = None

\* `not roles` as it would be if the test were left out
NoRoles_Never(roles) == FALSE

\* `not roles`
NoRoles(roles) == roles = <<>>

\* the branches as they would be if ensure_exists lacked the `if user_exists`
\* test and every action were ensure_exists: the call always creates
Dispatch_EnsureCreates(action, user_exists, password, roles) ==
    IF NoRoles(roles) THEN [do |-> "raise", arg |-> "ValueError(Roles are required)"]
    ELSE IF NoPassword(password)
    THEN [do |-> "raise", arg |-> "ValueError(Password is required)"]
    ELSE [do |-> "createUser", arg |-> "created"]

\* what manage_user does after the probe: return a message, raise, or issue
\* the command do
Dispatch(action, user_exists, password, roles) ==
    CASE action = "create" ->
           IF user_exists THEN [do |-> "return", arg |-> "User already exists"]
           ELSE IF NoPassword(password) \/ NoRoles(roles)
           THEN [do |-> "raise", arg |-> "ValueError(Password and roles are required)"]
           ELSE [do |-> "createUser", arg |-> "created"]
      [] action = "update" ->
           IF ~user_exists THEN [do |-> "return", arg |-> "User does not exist"]
           ELSE IF NoRoles(roles)
           THEN [do |-> "raise", arg |-> "ValueError(Roles are required)"]
           ELSE [do |-> "updateUser", arg |-> "updated"]
      [] action = "ensure_exists" ->
           IF NoRoles(roles) THEN [do |-> "raise", arg |-> "ValueError(Roles are required)"]
           ELSE IF user_exists THEN [do |-> "updateUser", arg |-> "updated"]
           ELSE IF NoPassword(password)
           THEN [do |-> "raise", arg |-> "ValueError(Password is required)"]
           ELSE [do |-> "createUser", arg |-> "created"]
      [] action = "delete" ->
           IF ~user_exists THEN [do |-> "return", arg |-> "User does not exist"]
           ELSE [do |-> "dropUser", arg |-> "deleted"]
      [] OTHER -> [do |-> "raise", arg |-> "ValueError(Invalid action)"]

\* the server runs command cmd on user u of the users us: the OperationFailure
\* it answers with (OK: none) and the users afterwards
ServerCommand(cmd, u, password, roles, us) ==
    CASE cmd = "createUser" ->
           IF us[u].present THEN [exc |-> UserExistsFailure, users |-> us]
           ELSE [exc |-> OK,
                 users |-> [us EXCEPT ![u] = [present |-> TRUE, pwd |-> password,
                                              roles |-> roles]]]
      [] cmd = "updateUser" ->
           IF ~us[u].present THEN [exc |-> UserNotFoundFailure, users |-> us]
           ELSE [exc |-> OK, users |-> [us EXCEPT ![u].roles = roles]]
      [] OTHER ->
           IF ~us[u].present THEN [exc |-> UserNotFoundFailure, users |-> us]
           ELSE [exc |-> OK, users |-> [us EXCEPT ![u] = NoUser]]

\* how a finished call ended, for the next call to remember
Ended(r) ==
    IF r.kind = "error" THEN "raised"
    ELSE IF r.result.success THEN "succeeded"
    ELSE "returned"

\* admin.manage_user(username, password, roles, action=action) is called, the
\* admin object built on an instance a constructor returned:
\* client = self.mongo_manager.get_client()
StartManageUser(t, i, action, username, password, roles) ==
    /\ i \in known
    /\ LET c == [NoCall EXCEPT !.op = "manage_user", !.self = i, !.action = action,
                               !.username = username, !.password = password,
                               !.roles = roles]
           same == c = [call[t] EXCEPT !.before = NoCall.before, !.prev = NoCall.prev]
       IN Begin(t, [c EXCEPT !.before = users,
                             !.prev = IF same THEN Ended(res[t]) ELSE "none"])
    /\ stk' = [stk EXCEPT ![t] = <<[Frame("manage_user") EXCEPT !.action = action],
                                   Frame("get_client")>>]
    /\ pc' = [pc EXCEPT ![t] = "gc_check"]
    /\ UNCHANGED <<instance, lock, inst, handles, known, faulted, users, collection,
                   target, pipe, orch>>

\* user_exists = self.user_exists(username, db_name):
\* client = self.mongo_manager.get_client()
ManageUserProbe(t) ==
    /\ pc[t] = "mu_probe"
    /\ stk' = [stk EXCEPT ![t] = @ \o <<Frame("user_exists"), Frame("get_client")>>]
    /\ pc' = [pc EXCEPT ![t] = "gc_check"]
    /\ UNCHANGED <<instance, lock, inst, handles, call, res, cnt, ncalls, known, faulted,
                   users, collection, target, pipe, orch>>

\* user_exists: result = client[db_name].command('usersInfo', ...);
\* return len(result.get('users', [])) > 0
UserExistsCommand(t, o) ==
    /\ pc[t] = "ue_command"
    /\ cnt' = [cnt EXCEPT ![t] = Append(@, Did("usersInfo", o))]
    /\ IF o = OK
       THEN /\ stk' = [stk EXCEPT ![t] =
                         [Pop(@) EXCEPT ![Len(@) - 1].user_exists =
                                            users[call[t].username].present]]
            /\ pc' = [pc EXCEPT ![t] = "mu_dispatch"]
            /\ UNCHANGED <<res, faulted>>
       ELSE /\ Raise(t, o)
            /\ faulted' = TRUE
    /\ UNCHANGED <<instance, lock, inst, handles, call, ncalls, known, users, collection,
                   target, pipe, orch>>

\* the branch of the action: an early return, a ValueError, or the command and
\* what the server answers; then the except clauses, and return result
ManageUserCommand(t, o) ==
    LET c == call[t]
        d == Dispatch(c.action, stk[t][1].user_exists, c.password, c.roles)
        a == ServerCommand(d.do, c.username, c.password, c.roles, users)
    IN
    /\ pc[t] = "mu_dispatch"
    /\ IF d.do = "return"
       THEN /\ o = OK
            /\ pc' = [pc EXCEPT ![t] = "idle"]
            /\ stk' = [stk EXCEPT ![t] = <<>>]
            /\ res' = [res EXCEPT ![t] =
                         [NoRes EXCEPT !.kind = "ok",
                                       !.result = [NoResult EXCEPT !.message = d.arg]]]
            /\ UNCHANGED <<cnt, users, faulted>>
       ELSE IF d.do = "raise"
       THEN /\ o = OK
            /\ Raise(t, d.arg)
            /\ UNCHANGED <<cnt, users, faulted>>
       ELSE IF o # OK
       THEN /\ cnt' = [cnt EXCEPT ![t] = Append(@, Did(d.do, o))]
            /\ Raise(t, o)
            /\ faulted' = TRUE
            /\ UNCHANGED users
       ELSE IF a.exc # OK
       THEN /\ cnt' = [cnt EXCEPT ![t] = Append(@, Did(d.do, a.exc))]
            /\ Raise(t, a.exc)
            /\ UNCHANGED <<users, faulted>>
       ELSE /\ cnt' = [cnt EXCEPT ![t] = Append(@, Did(d.do, OK))]
            /\ users' = a.users
            /\ pc' = [pc EXCEPT ![t] = "idle"]
            /\ stk' = [stk EXCEPT ![t] = <<>>]
            \* result['success'] = cmd_result.get('ok', 0) == 1, and the same
            \* into 'created', 'updated' or 'deleted'
            /\ res' = [res EXCEPT ![t] =
                         [NoRes EXCEPT !.kind = "ok",
                                       !.result = [NoResult EXCEPT
                                                     !.success = TRUE,
                                                     !.created = d.arg = "created",
                                                     !.updated = d.arg = "updated",
                                                     !.deleted = d.arg = "deleted"]]]
            /\ UNCHANGED faulted
    /\ UNCHANGED <<instance, lock, inst, handles, call, ncalls, known, collection,
                   target, pipe, orch>>

(***************************************************************************)
(* User and MongoDBUserManager: the application's accounts.  A document of *)
(* the "users" collection is a function from its field names to their     *)
(* values; a field a document lacks is not in its domain.                  *)
(***************************************************************************)
\* User.ROLE_PERMISSIONS
ROLE_PERMISSIONS ==
    [superadmin |-> <<"readWriteAnyDatabase", "userAdminAnyDatabase", "dbAdminAnyDatabase">>,
     admin |-> <<"readWrite", "userAdmin">>,
     dataengineer |-> <<"readWrite", "dbAdmin">>,
     energyanalyst |-> <<"read">>,
     viewer |-> <<"read">>,
     sensormanager |-> <<"readWrite">>,
     facilitymanager |-> <<"readWrite">>,
     auditor |-> <<"read">>,
     mlmodeltrainer |-> <<"read", "write">>,
     apiclient |-> <<"readWrite">>]

\* role in User.ROLE_PERMISSIONS
KnownRole(role) == role \in DOMAIN ROLE_PERMISSIONS

\* the salts bcrypt.gensalt() may return
Salts == {"salt1"}

\* User.hash_password: bcrypt.hashpw(password, salt) keeps the salt in the hash
hash_password(password, salt) == [salt |-> salt, digest |-> <<salt, password>>]

\* User.verify_password: bcrypt.checkpw hashes password with the salt of the
\* stored hash and compares
verify_password(password, hashed_password) ==
    hash_password(password, hashed_password.salt) = hashed_password

\* User.__post_init__: the exception the constructor raises (OK: none)
PostInit(username, email, role) ==
    IF username = "" THEN "ValueError(Username cannot be empty)"
    ELSE IF email = "" THEN "ValueError(Email cannot be empty)"
    ELSE IF ~KnownRole(role) THEN "ValueError(Invalid role)"
    ELSE OK

\* User(...).to_dict() of create_user: permissions are those of the role
NewUser(username, email, role, hashed_password, active, metadata) ==
    [username |-> username, email |-> email, role |-> role,
     hashed_password |-> hashed_password, active |-> active, metadata |-> metadata,
     permissions |-> ROLE_PERMISSIONS[role]]

\* the positions of the documents with this username
Matching(docs, username) ==
    {k \in 1..Len(docs) : "username" \in DOMAIN docs[k] /\ docs[k].username = username}

\* find_one({"username": username}): a position, 0 when nothing matches
FindOne(docs, username) ==
    IF Matching(docs, username) = {} THEN 0
    ELSE CHOOSE k \in Matching(docs, username) : \A j \in Matching(docs, username) : k <= j

\* {"$set": update_data} applied to a document
SetFields(doc, update_data) ==
    [k \in DOMAIN doc \cup DOMAIN update_data |->
        IF k \in DOMAIN update_data THEN update_data[k] ELSE doc[k]]

\* update_data as it would be if no key were removed from it
Without_Same(f, k) == f

\* a function without the key k
Without(f, k) == [x \in DOMAIN f \ {k} |-> f[x]]

\* update_user: update_data after `del update_data["username"]` and after the
\* password is replaced with its hash
PrepareUpdate(update_data, salt) ==
    LET d == IF "username" \in DOMAIN update_data THEN Without(update_data, "username")
             ELSE update_data
    IN IF "password" \in DOMAIN d
       THEN Without(d, "password") @@ ("hashed_password" :> hash_password(d.password, salt))
       ELSE d

\* the update_data of update_user_role as it would be with the role alone
RoleUpdate_RoleOnly(new_role) == ("role" :> new_role)

\* update_user_role: the update_data it hands to update_user
RoleUpdate(new_role) ==
    ("role" :> new_role) @@ ("permissions" :> ROLE_PERMISSIONS[new_role])

\* a sequence without its k-th element
Remove(seq, k) == SubSeq(seq, 1, k - 1) \o SubSeq(seq, k + 1, Len(seq))

\* create_user as it would be with the bare re-raise alone
CreateUserExcept_Same(e) == e

\* create_user, except errors.DuplicateKeyError / except Exception: what leaves
\* the method when e is raised inside it
CreateUserExcept(e) ==
    IF e = "DuplicateKeyError" THEN "ValueError(already exists)" ELSE e

\* user_manager.create_user(username, email, role, password, metadata, active)
\* is called
StartCreateUser(t, username, email, role, password, active, salt) ==
    /\ Begin(t, [NoCall EXCEPT !.op = "create_user", !.self = 1, !.username = username,
                               !.email = email, !.role = role, !.password = password,
                               !.active = active, !.metadata = "{}", !.salt = salt])
    /\ pc' = [pc EXCEPT ![t] = "cu_check"]
    /\ UNCHANGED <<instance, lock, inst, handles, stk, known, faulted, users, collection,
                   target, pipe, orch>>

\* if self.user_exists(username): raise ValueError; hashed_password =
\* User.hash_password(password); user = User(...), whose __post_init__ validates
CreateUserCheck(t, o) ==
    LET c == call[t]
        v == PostInit(c.username, c.email, c.role)
    IN
    /\ pc[t] = "cu_check"
    /\ cnt' = [cnt EXCEPT ![t] = Append(@, Did("count_documents", o))]
    /\ IF o # OK
       THEN /\ Raise(t, CreateUserExcept(o))
            /\ faulted' = TRUE
       ELSE /\ faulted' = faulted
            /\ IF Matching(collection.docs, c.username) # {}
               THEN Raise(t, CreateUserExcept("ValueError(already exists)"))
               ELSE IF v # OK
               THEN Raise(t, CreateUserExcept(v))
               ELSE /\ pc' = [pc EXCEPT ![t] = "cu_insert"]
                    /\ UNCHANGED <<stk, res>>
    /\ UNCHANGED <<instance, lock, inst, handles, call, ncalls, known, users, collection,
                   target, pipe, orch>>

\* result = self.collection.insert_one(user.to_dict()); return user
\* (the unique index, where it exists, answers a second username with
\* DuplicateKeyError)
CreateUserInsert(t, o) ==
    LET c == call[t] IN
    /\ pc[t] = "cu_insert"
    /\ IF o # OK
       THEN /\ cnt' = [cnt EXCEPT ![t] = Append(@, Did("insert_one", o))]
            /\ Raise(t, CreateUserExcept(o))
            /\ faulted' = TRUE
            /\ UNCHANGED collection
       ELSE IF collection.unique /\ Matching(collection.docs, c.username) # {}
       THEN /\ cnt' = [cnt EXCEPT ![t] = Append(@, Did("insert_one", "DuplicateKeyError"))]
            /\ Raise(t, CreateUserExcept("DuplicateKeyError"))
            /\ UNCHANGED <<faulted, collection>>
       ELSE /\ cnt' = [cnt EXCEPT ![t] = Append(@, Did("insert_one", OK))]
            /\ collection' =
                  [collection EXCEPT !.docs =
                      Append(@, NewUser(c.username, c.email, c.role,
                                        hash_password(c.password, c.salt),
                                        c.active, c.metadata))]
            /\ Return(t, NoId)
            /\ UNCHANGED faulted
    /\ UNCHANGED <<instance, lock, inst, handles, call, ncalls, known, users, target, pipe, orch>>

\* a method that makes one call into the collection runs from call to return:
\* its arguments c, what it did, and how it ended
CallAndReturn(t, c, did, exc, truth) ==
    /\ pc[t] = "idle"
    /\ call' = [call EXCEPT ![t] = c]
    /\ ncalls' = [ncalls EXCEPT ![t] = @ + 1]
    /\ cnt' = [cnt EXCEPT ![t] = did]
    /\ res' = [res EXCEPT ![t] =
                 IF exc = OK THEN [NoRes EXCEPT !.kind = "ok", !.truth = truth]
                 ELSE [NoRes EXCEPT !.kind = "error", !.exc = exc]]
    /\ faulted' = (faulted \/ \E k \in 1..Len(did) : did[k].out \in ConnectionFailures)
    /\ UNCHANGED <<instance, lock, inst, handles, pc, stk, known, users, target, pipe, orch>>

\* authenticate_user: user = self.get_user(username) (find_one, User.from_dict);
\* if not user or not user.active: return False; return
\* User.verify_password(password, user.hashed_password); except Exception:
\* return False
Authenticate(docs, username, password, o) ==
    LET k == FindOne(docs, username)
        d == docs[k]
    IN IF o # OK THEN FALSE
       ELSE IF k = 0 THEN FALSE
       \* from_dict: data["username"], data["email"], data["role"],
       \* data["hashed_password"] raise KeyError when missing
       ELSE IF ~({"username", "email", "role", "hashed_password"} \subseteq DOMAIN d)
       THEN FALSE
       ELSE IF PostInit(d.username, d.email, d.role) # OK THEN FALSE
       ELSE IF ~(IF "active" \in DOMAIN d THEN d.active ELSE TRUE) THEN FALSE
       ELSE verify_password(password, d.hashed_password)

\* user_manager.authenticate_user(username, password)
AuthenticateUser(t, username, password, o) ==
    /\ CallAndReturn(t, [NoCall EXCEPT !.op = "authenticate_user", !.self = 1,
                                       !.username = username, !.password = password],
                     <<Did("find_one", o)>>, OK,
                     Authenticate(collection.docs, username, password, o))
    /\ UNCHANGED collection

\* update_user: the exception it raises (OK: none), the bool it returns, the
\* documents afterwards, and whether update_one was called
Update(docs, username, update_data, upsert, salt, o) ==
    LET d == PrepareUpdate(update_data, salt)
        k == FindOne(docs, username)
        set == [docs EXCEPT ![k] = SetFields(@, d)]
    IN IF "role" \in DOMAIN d /\ ~KnownRole(d.role)
       THEN [exc |-> "ValueError(Invalid role)", truth |-> FALSE, docs |-> docs,
             called |-> FALSE]
       ELSE IF o # OK
       THEN [exc |-> o, truth |-> FALSE, docs |-> docs, called |-> TRUE]
       ELSE IF k # 0
       \* success = result.modified_count > 0
       THEN [exc |-> OK, truth |-> set # docs, docs |-> set, called |-> TRUE]
       ELSE IF upsert
       THEN [exc |-> OK, truth |-> TRUE, called |-> TRUE,
             docs |-> Append(docs, SetFields(("username" :> username), d))]
       ELSE [exc |-> OK, truth |-> FALSE, docs |-> docs, called |-> TRUE]

\* user_manager.update_user(username, update_data, upsert)
UpdateUser(t, username, update_data, upsert, salt, o) ==
    LET r == Update(collection.docs, username, update_data, upsert, salt, o) IN
    /\ CallAndReturn(t, [NoCall EXCEPT !.op = "update_user", !.self = 1,
                                       !.username = username, !.salt = salt,
                                       !.update_data = update_data, !.upsert = upsert],
                     IF r.called THEN <<Did("update_one", o)>> ELSE <<>>,
                     r.exc, r.truth)
    /\ collection' = [collection EXCEPT !.docs = r.docs]

\* user_manager.update_user_role(username, new_role)
UpdateUserRole(t, username, new_role, o) ==
    LET r == IF ~KnownRole(new_role)
             THEN [exc |-> "ValueError(Invalid role)", truth |-> FALSE,
                   docs |-> collection.docs, called |-> FALSE]
             ELSE Update(collection.docs, username, RoleUpdate(new_role), FALSE, None, o)
    IN
    /\ CallAndReturn(t, [NoCall EXCEPT !.op = "update_user_role", !.self = 1,
                                       !.username = username, !.role = new_role],
                     IF r.called THEN <<Did("update_one", o)>> ELSE <<>>,
                     r.exc, r.truth)
    /\ collection' = [collection EXCEPT !.docs = r.docs]

\* user_manager.delete_user(username): delete_one, deleted_count > 0
DeleteUser(t, username, o) ==
    LET k == FindOne(collection.docs, username) IN
    /\ CallAndReturn(t, [NoCall EXCEPT !.op = "delete_user", !.self = 1,
                                       !.username = username],
                     <<Did("delete_one", o)>>, o, k # 0)
    /\ collection' = IF o = OK /\ k # 0
                     THEN [collection EXCEPT !.docs = Remove(@, k)]
                     ELSE collection

\* no two documents have the same username
UniqueUsernames(docs) ==
    \A j, k \in 1..Len(docs) :
        ("username" \in DOMAIN docs[j] /\ "username" \in DOMAIN docs[k]
            /\ docs[j].username = docs[k].username) => j = k

\* user_manager.ensure_indexes(): create_index("username", unique=True), which
\* the server refuses with DuplicateKeyError while usernames repeat
EnsureIndexes(t, o) ==
    LET e == IF o # OK THEN o
             ELSE IF ~UniqueUsernames(collection.docs) THEN "DuplicateKeyError"
             ELSE OK
    IN
    /\ CallAndReturn(t, [NoCall EXCEPT !.op = "ensure_indexes", !.self = 1],
                     <<Did("create_index", e)>>, e, FALSE)
    /\ collection' = IF e = OK THEN [collection EXCEPT !.unique = TRUE] ELSE collection

(***************************************************************************)
(* PostgresToMongoTranslator.  A value of a row is [kind, v]: a Decimal, a  *)
(* float, an int or a str with its digits or text v, a dict with the        *)
(* mapping v, a list with the sequence v, a datetime.                       *)
(***************************************************************************)
Decimal(v) == [kind |-> "Decimal", v |-> v]
Float(v) == [kind |-> "float", v |-> v]
PyInt(v) == [kind |-> "int", v |-> v]
Str(v) == [kind |-> "str", v |-> v]
Dict(v) == [kind |-> "dict", v |-> v]
List(v) == [kind |-> "list", v |-> v]
Datetime(v) == [kind |-> "datetime", v |-> v]

\* the rows of the tables: a Decimal column, a Decimal inside a nested mapping,
\* a Decimal inside a list, no Decimal
Source ==
    [a |-> << Dict(("id" :> PyInt("1")) @@ ("price" :> Decimal("9.5"))),
              Dict(("id" :> PyInt("2")) @@ ("dims" :> Dict(("w" :> Decimal("2.5")) @@
                                                         ("unit" :> Str("cm"))))),
              Dict(("id" :> PyInt("3")) @@ ("rates" :> List(<<Decimal("0.1")>>))) >>,
     b |-> << Dict(("id" :> PyInt("4")) @@ ("name" :> Str("x"))) >>]

\* _convert_decimals_to_float(data): for key, value in data.items(): a Decimal
\* becomes float(value), a dict is converted in turn, anything else stays
RECURSIVE convert_decimals_to_float(_)
convert_decimals_to_float(data) ==
    Dict([key \in DOMAIN data.v |->
            LET value == data.v[key] IN
            IF value.kind = "Decimal" THEN Float(value.v)
            ELSE IF value.kind = "dict" THEN convert_decimals_to_float(value)
            ELSE value])

\* the sequence s read from its position k + 1 on, around to position k
Rotated(s, k) == SubSeq(s, k + 1, Len(s)) \o SubSeq(s, 1, k)

\* the rows of the table in the orders a SELECT * without ORDER BY may return
\* them while the table does not change: a scan may start at any row
Scans(table) == {Rotated(Source[table], k) : k \in 0..(Len(Source[table]) - 1)}

\* SELECT COUNT(*) FROM table, for every table, while the tables do not change
Counts == [table \in TableNames |-> Len(Source[table])]

\* a paging query whose LIMIT 0 stands for no limit
FetchBatch_ZeroMeansAll(scan, offset, batch_size) ==
    LET last == IF batch_size # 0 /\ offset + batch_size < Len(scan)
                THEN offset + batch_size ELSE Len(scan)
    IN SubSeq(scan, offset + 1, last)

\* SELECT * FROM table OFFSET offset LIMIT batch_size, where the server scans
\* the rows in the order scan
FetchBatch(scan, offset, batch_size) ==
    LET last == IF offset + batch_size < Len(scan) THEN offset + batch_size ELSE Len(scan)
    IN SubSeq(scan, offset + 1, last)

\* create_many: if '_created_at' not in doc: doc['_created_at'] = now
StampCreatedAt(doc, now) ==
    IF "_created_at" \in DOMAIN doc.v THEN doc
    ELSE Dict(doc.v @@ ("_created_at" :> Datetime(now)))

\* key.startswith('$'), over the keys the callers use
IsOperator(key) == key \in {"$set", "$inc"}

\* update_one: if all(not key.startswith('$') for key in update): update =
\* {'$set': update}; if '$set' in update and '_updated_at' not in
\* update['$set']: update['$set']['_updated_at'] = now
StampUpdatedAt(update, now) ==
    LET u == IF \A key \in DOMAIN update.v : ~IsOperator(key)
             THEN Dict("$set" :> update) ELSE update
    IN IF "$set" \in DOMAIN u.v /\ "_updated_at" \notin DOMAIN u.v["$set"].v
       THEN Dict([key \in DOMAIN u.v |->
                    IF key = "$set"
                    THEN Dict(u.v["$set"].v @@ ("_updated_at" :> Datetime(now)))
                    ELSE u.v[key]])
       ELSE u

\* what a create or update path hands to one _execute_operation call
Kwargs(verb, documents, update) == [verb |-> verb, documents |-> documents, update |-> update]

\* the calls of _execute_operation a path makes for its argument: create_one
\* and create_many stamp the documents, update_one wraps and stamps the update,
\* bulk_write, update_many (one update_one per update) and
\* read_one_and_update pass their argument on as it is
PathCalls(path, arg, now) ==
    CASE path = "create_one" ->
           <<Kwargs("insert_one", <<StampCreatedAt(arg[1], now)>>, Dict(<<>>))>>
      [] path = "create_many" ->
           <<Kwargs("insert_many", [k \in 1..Len(arg) |-> StampCreatedAt(arg[k], now)],
                    Dict(<<>>))>>
      [] path = "bulk_write" ->
           <<Kwargs("bulk_write", arg, Dict(<<>>))>>
      [] path = "update_one" ->
           <<Kwargs("update_one", <<>>, StampUpdatedAt(arg[1], now))>>
      [] path = "update_many" ->
           [k \in 1..Len(arg) |-> Kwargs("update_one", <<>>, arg[k])]
      [] path = "read_one_and_update" ->
           <<Kwargs("find_one_and_update", <<>>, arg[1])>>

\* a create or update path of the CRUD classes is called with arg (its
\* documents or its updates) and runs to its end: the _execute_operation calls
\* up to the first that fails are made, and the failure leaves the path
CrudPath(t, path, arg, o) ==
    LET calls == PathCalls(path, arg, "now") IN
    /\ pc[t] = "idle"
    /\ call' = [call EXCEPT ![t] = [NoCall EXCEPT !.op = path, !.self = 1, !.arg = arg]]
    /\ ncalls' = [ncalls EXCEPT ![t] = @ + 1]
    /\ cnt' = [cnt EXCEPT ![t] = <<Did(calls[1].verb, o)>>]
    /\ res' = [res EXCEPT ![t] =
                 IF o = OK THEN [NoRes EXCEPT !.kind = "ok", !.sent = calls]
                 ELSE [NoRes EXCEPT !.kind = "error", !.exc = o, !.sent = <<calls[1]>>]]
    /\ faulted' = (faulted \/ o # OK)
    /\ UNCHANGED <<instance, lock, inst, handles, pc, stk, known, users, collection, target,
                   pipe, orch>>

\* the documents and the updates the callers pass: without and with the
\* timestamp, plain field assignments and explicit update operators
Documents ==
    { Dict("name" :> Str("x")),
      Dict(("name" :> Str("y")) @@ ("_created_at" :> Datetime("t0"))) }
Updates ==
    { Dict("name" :> Str("x")),
      Dict(("name" :> Str("x")) @@ ("_updated_at" :> Datetime("t0"))),
      Dict("$set" :> Dict("name" :> Str("x"))),
      Dict("$set" :> Dict(("name" :> Str("x")) @@ ("_updated_at" :> Datetime("t0")))),
      Dict("$inc" :> Dict("n" :> PyInt("1"))) }
\* the sequences of one or two members of S
UpToTwo(S) == {<<x>> : x \in S} \cup {<<x, y>> : x \in S, y \in S}
\* the paths and the arguments each takes
CreatePaths == {"create_one", "create_many", "bulk_write"}
UpdatePaths == {"update_one", "update_many", "read_one_and_update"}
PathArgs(path) ==
    CASE path = "create_one" -> {<<d>> : d \in Documents}
      [] path = "create_many" -> UpToTwo(Documents)
      [] path = "bulk_write" -> UpToTwo(Documents)
      [] path = "update_one" -> {<<u>> : u \in Updates}
      [] path = "update_many" -> UpToTwo(Updates)
      [] path = "read_one_and_update" -> {<<u>> : u \in Updates}

\* the orders in which information_schema.tables may list the tables
TableOrders == {<<"a", "b">>, <<"b", "a">>}
\* the batch_size arguments
BatchSizes == {1, 2}
\* how create_many may end: MongoDBCrudError when the verb fails, the bare
\* Exception of get_client's give-up handler when the ping fails
CreateManyOutcomes == {OK, "MongoDBCrudError", "Exception"}
\* the attributes the translator reads of the manager that the manager has
ManagerMethods == {"close_connection", "get_client", "get_database", "get_collection"}

\* translator.transfer_data(batch_size): psycopg2.connect, the cursor, and
\* tables = self._get_postgresql_tables(pg_cursor)
StartTransferData(t, batch_size, tables) ==
    /\ Begin(t, [NoCall EXCEPT !.op = "transfer_data", !.self = 1])
    /\ pc' = [pc EXCEPT ![t] = "td_table"]
    /\ pipe' = [NoPipe EXCEPT !.pg = "open", !.tables = tables, !.ti = 1,
                              !.batch_size = batch_size]
    /\ UNCHANGED <<instance, lock, inst, handles, stk, known, faulted, users, collection,
                   target, orch>>

\* for table in tables: transfer_table_data(pg_cursor, table_name, batch_size),
\* which reads total_rows and sets offset = 0; after the last table the finally
\* clause runs
TransferDataNextTable(t, counts) ==
    /\ pc[t] = "td_table"
    /\ IF pipe.ti > Len(pipe.tables)
       THEN /\ pc' = [pc EXCEPT ![t] = "td_finally"]
            /\ UNCHANGED pipe
       ELSE /\ pc' = [pc EXCEPT ![t] = "tt_loop"]
            /\ pipe' = [pipe EXCEPT
                          !.total_rows = counts[pipe.tables[pipe.ti]],
                          !.offset = 0,
                          !.fetched = Append(@, [q |-> "count", table |-> pipe.tables[pipe.ti],
                                                 offset |-> 0])]
    /\ UNCHANGED <<instance, lock, inst, handles, stk, call, res, cnt, ncalls, known, faulted,
                   users, collection, target, orch>>

\* while offset < total_rows: rows = self._fetch_postgresql_batch(...); if not
\* rows: break; documents = [self._convert_decimals_to_float(dict(row)) ...]
TransferTableFetch(t, scan) ==
    LET table == pipe.tables[pipe.ti]
        rows == FetchBatch(scan, pipe.offset, pipe.batch_size)
    IN
    /\ pc[t] = "tt_loop"
    /\ IF pipe.offset < pipe.total_rows /\ rows # <<>>
       THEN /\ pc' = [pc EXCEPT ![t] = "tt_insert"]
            /\ pipe' = [pipe EXCEPT
                          !.documents = [k \in 1..Len(rows) |->
                                            convert_decimals_to_float(rows[k])],
                          !.fetched = Append(@, [q |-> "rows", table |-> table,
                                                 offset |-> pipe.offset])]
       ELSE /\ pc' = [pc EXCEPT ![t] = "td_table"]
            /\ pipe' = [pipe EXCEPT
                          !.ti = @ + 1,
                          !.fetched = IF pipe.offset < pipe.total_rows
                                      THEN Append(@, [q |-> "rows", table |-> table,
                                                      offset |-> pipe.offset])
                                      ELSE @]
    /\ UNCHANGED <<instance, lock, inst, handles, stk, call, res, cnt, ncalls, known, faulted,
                   users, collection, target, orch>>

\* self.create_operations.create_many(table_name, documents), which stamps the
\* documents and runs insert_many (ordered: the documents before the failing
\* one are inserted); except MongoDBCrudError: raise; offset += batch_size
TransferTableInsert(t, o, j) ==
    LET table == pipe.tables[pipe.ti]
        stamped == [k \in 1..Len(pipe.documents) |-> StampCreatedAt(pipe.documents[k], "now")]
    IN
    /\ pc[t] = "tt_insert"
    /\ j \in 0..(Len(stamped) - 1)
    /\ o = "Exception" => j = 0
    /\ cnt' = [cnt EXCEPT ![t] = Append(@, Did("create_many", o))]
    /\ IF o = OK
       THEN /\ j = 0
            /\ target' = [target EXCEPT ![table] = @ \o stamped]
            /\ pipe' = [pipe EXCEPT !.offset = @ + pipe.batch_size,
                                    !.passed = Append(@, [table |-> table,
                                                          documents |-> pipe.documents])]
            /\ pc' = [pc EXCEPT ![t] = "tt_loop"]
            /\ UNCHANGED faulted
       ELSE /\ target' = [target EXCEPT ![table] = @ \o SubSeq(stamped, 1, j)]
            /\ pipe' = [pipe EXCEPT !.pending = o,
                                    !.passed = Append(@, [table |-> table,
                                                          documents |-> pipe.documents])]
            /\ pc' = [pc EXCEPT ![t] = "td_finally"]
            /\ faulted' = TRUE
    /\ UNCHANGED <<instance, lock, inst, handles, stk, call, res, ncalls, known, users,
                   collection, orch>>

\* finally: pg_cursor.close(); pg_conn.close();
\* self.orchestrator.db_manager.close(); then the pending exception, if any,
\* goes on to the caller
TransferDataFinally(t) ==
    /\ pc[t] = "td_finally"
    /\ pipe' = [pipe EXCEPT !.pg = "closed"]
    /\ pc' = [pc EXCEPT ![t] = "idle"]
    /\ res' = [res EXCEPT ![t] =
                 IF "close" \notin ManagerMethods
                 THEN [NoRes EXCEPT !.kind = "error", !.exc = "AttributeError",
                                    !.cause = pipe.pending]
                 ELSE IF pipe.pending # None
                 THEN [NoRes EXCEPT !.kind = "error", !.exc = pipe.pending]
                 ELSE [NoRes EXCEPT !.kind = "ok"]]
    /\ UNCHANGED <<instance, lock, inst, handles, stk, call, cnt, ncalls, known, faulted,
                   users, collection, target, orch>>

(***************************************************************************)
(* Specifications                                                          *)
(***************************************************************************)
Step(t) ==
    \/ /\ ncalls[t] < MaxCalls
       /\ \/ \E c \in Configs, temporary \in BOOLEAN : StartConstruct(t, c, temporary)
          \/ \E i \in InstIds : StartGetClient(t, i)
          \/ \E i \in InstIds, v \in Verbs, c \in Colls : StartExecuteOperation(t, i, v, c)
          \/ \E i \in InstIds : CloseConnection(t, i)
    \/ NewLock(t)
    \/ NewCheck(t)
    \/ NewCreate(t)
    \/ NewUnlock(t)
    \/ InitFields(t)
    \/ InitializeClientCheck(t)
    \/ \E o \in Outcomes : InitializeClientBuild(t, o)
    \/ BackoffWait(t)
    \/ \E o \in Outcomes : VerifyConnectionPing(t, o)
    \/ GetClientCheck(t)
    \/ \E o \in Outcomes : GetClientPing(t, o)
    \/ ExecuteOperationGetCollection(t)
    \/ \E o \in Outcomes : ExecuteOperationCall(t, o)

\* one caller thread: every operation, every outcome of the client
Next == Step("t1")

Spec == Init /\ [][Next]_vars

\* the threads construct managers and call get_client concurrently
StepShared(t) ==
    \/ /\ ncalls[t] < MaxSharedCalls
       /\ \/ \E c \in Configs, temporary \in BOOLEAN : StartConstruct(t, c, temporary)
          \/ \E i \in InstIds : StartGetClient(t, i)
    \/ NewLock(t)
    \/ NewCheck(t)
    \/ NewCreate(t)
    \/ NewUnlock(t)
    \/ InitFields(t)
    \/ InitializeClientCheck(t)
    \/ InitializeClientBuild(t, OK)
    \/ \E o \in SharedOutcomes : VerifyConnectionPing(t, o)
    \/ GetClientCheck(t)
    \/ \E o \in SharedOutcomes : GetClientPing(t, o)

NextShared == \E t \in Threads : StepShared(t)

SpecShared == Init /\ [][NextShared]_vars

\* a manager is constructed and connected, a MongoDBUserAdmin is built on it,
\* and the server has any users
InitAdmin ==
    /\ instance = 1
    /\ lock = None
    /\ inst = [i \in InstIds |->
                IF i = 1 THEN [exists |-> TRUE, is_temporary |-> FALSE, initialized |-> TRUE,
                               db_config |-> "cfgA", client |-> 1, db |-> 1,
                               operation_history |-> <<>>]
                ELSE NoInst]
    /\ handles = <<[inst |-> 1, cfg |-> "cfgA", as_configured |-> TRUE, closed |-> FALSE]>>
    /\ pc = [t \in Threads |-> "idle"]
    /\ stk = [t \in Threads |-> <<>>]
    /\ call = [t \in Threads |-> NoCall]
    /\ res = [t \in Threads |-> NoRes]
    /\ cnt = [t \in Threads |-> NoCnt]
    /\ ncalls = [t \in Threads |-> 0]
    /\ known = {1}
    /\ faulted = FALSE
    /\ users \in [Usernames -> UserStates]
    /\ collection = NoCollection
    /\ target = NoTarget
    /\ pipe = NoPipe
    /\ orch = NoOrch

\* the outcomes of a call into the client while manage_user runs
AdminOutcomes == {OK, AuthFailure, "ConnectionFailure"}

\* thread t calls manage_user, at most n times, with an action of A, a password
\* of P and a role list of R, and the client answers with the outcomes O
StepAdmin(t, n, A, P, R, O) ==
    \/ /\ ncalls[t] < n
       /\ \E i \in InstIds, a \in A, u \in Usernames, p \in P, r \in R :
             StartManageUser(t, i, a, u, p, r)
    \/ GetClientCheck(t)
    \/ \E o \in O : GetClientPing(t, o)
    \/ ManageUserProbe(t)
    \/ \E o \in O : UserExistsCommand(t, o)
    \/ \E o \in O : ManageUserCommand(t, o)

\* one caller thread: every action, every outcome
NextAdmin == StepAdmin("t1", MaxAdminCalls, Actions, Passwords, RoleLists, AdminOutcomes)

SpecAdmin == InitAdmin /\ [][NextAdmin]_vars

\* the threads call manage_user concurrently for one user with one password and
\* one role list, and the client fails nowhere
SharedActions == {"ensure_exists", "delete"}

NextAdminShared ==
    \E t \in Threads :
        StepAdmin(t, MaxSharedCalls, SharedActions, {"pw1"}, {<<"read">>}, {OK})

SpecAdminShared == InitAdmin /\ [][NextAdminShared]_vars

\* the accounts the callers name, and what they pass for them
AccountNames == {"ann"}
RoleNames == {"viewer", "admin", "root"}
Secrets == {"s1", "s2"}
\* the arguments of create_user next to the username: the ones of the stored
\* account, others, and ones with a role outside the table
CreateArgs ==
    { [email |-> "ann@x.org", role |-> "viewer", password |-> "s1", active |-> TRUE],
      [email |-> "a@y.org", role |-> "admin", password |-> "s2", active |-> FALSE],
      [email |-> "ann@x.org", role |-> "root", password |-> "s1", active |-> TRUE] }
\* the update_data and upsert of update_user: a role, an unknown role, the flag
\* (deactivate_user), a new password with the flag and upsert, a username with
\* the flag and upsert
UpdateArgs ==
    { [update_data |-> ("role" :> "dataengineer"), upsert |-> FALSE],
      [update_data |-> ("role" :> "root"), upsert |-> TRUE],
      [update_data |-> ("active" :> FALSE), upsert |-> FALSE],
      [update_data |-> ("password" :> "s2") @@ ("active" :> TRUE), upsert |-> TRUE],
      [update_data |-> ("username" :> "eve") @@ ("active" :> TRUE), upsert |-> TRUE] }
\* calls started so far
Started == ncalls["t1"] + ncalls["t2"]

\* the account create_user("ann", "ann@x.org", "viewer", "s1", active=active)
\* has stored
Ann(active) ==
    NewUser("ann", "ann@x.org", "viewer", hash_password("s1", "salt1"), active, "{}")

\* a connected manager and a user manager over its "users" collection, which
\* is empty or holds one account, active or deactivated, with or without the
\* indexes of ensure_indexes
InitAccounts ==
    /\ instance = 1
    /\ lock = None
    /\ inst = [i \in InstIds |->
                IF i = 1 THEN [exists |-> TRUE, is_temporary |-> FALSE, initialized |-> TRUE,
                               db_config |-> "cfgA", client |-> 1, db |-> 1,
                               operation_history |-> <<>>]
                ELSE NoInst]
    /\ handles = <<[inst |-> 1, cfg |-> "cfgA", as_configured |-> TRUE, closed |-> FALSE]>>
    /\ pc = [t \in Threads |-> "idle"]
    /\ stk = [t \in Threads |-> <<>>]
    /\ call = [t \in Threads |-> NoCall]
    /\ res = [t \in Threads |-> NoRes]
    /\ cnt = [t \in Threads |-> NoCnt]
    /\ ncalls = [t \in Threads |-> 0]
    /\ known = {1}
    /\ faulted = FALSE
    /\ users = [u \in Usernames |-> NoUser]
    /\ \E docs \in {<<>>, <<Ann(TRUE)>>, <<Ann(FALSE)>>}, unique \in BOOLEAN :
          collection = [docs |-> docs, unique |-> unique]
    /\ target = NoTarget
    /\ pipe = NoPipe
    /\ orch = NoOrch

\* the outcomes of a call into the collection
AccountOutcomes == {OK, "ConnectionFailure"}

\* the threads call the methods of one MongoDBUserManager concurrently
NextAccounts ==
    \E t \in Threads :
        \/ /\ Started < MaxAccountCalls
           /\ \E u \in AccountNames, c \in CreateArgs, s \in Salts :
                 StartCreateUser(t, u, c.email, c.role, c.password, c.active, s)
        \/ \E o \in AccountOutcomes : CreateUserCheck(t, o)
        \/ \E o \in AccountOutcomes : CreateUserInsert(t, o)
        \/ /\ Started < MaxAccountCalls
           /\ \E u \in AccountNames, p \in Secrets, o \in AccountOutcomes :
                 AuthenticateUser(t, u, p, o)
        \/ /\ Started < MaxAccountCalls
           /\ \E u \in AccountNames, c \in UpdateArgs, s \in Salts, o \in AccountOutcomes :
                 UpdateUser(t, u, c.update_data, c.upsert, s, o)
        \/ /\ Started < MaxAccountCalls
           /\ \E u \in AccountNames, r \in RoleNames, o \in AccountOutcomes :
                 UpdateUserRole(t, u, r, o)
        \/ /\ Started < MaxAccountCalls
           /\ \E u \in AccountNames, o \in AccountOutcomes : DeleteUser(t, u, o)
        \/ /\ Started < MaxAccountCalls
           /\ \E o \in AccountOutcomes : EnsureIndexes(t, o)

SpecAccounts == InitAccounts /\ [][NextAccounts]_vars

\* a connected manager and a translator over it; the target collections empty
InitTransfer ==
    /\ instance = 1
    /\ lock = None
    /\ inst = [i \in InstIds |->
                IF i = 1 THEN [exists |-> TRUE, is_temporary |-> FALSE, initialized |-> TRUE,
                               db_config |-> "cfgA", client |-> 1, db |-> 1,
                               operation_history |-> <<>>]
                ELSE NoInst]
    /\ handles = <<[inst |-> 1, cfg |-> "cfgA", as_configured |-> TRUE, closed |-> FALSE]>>
    /\ pc = [t \in Threads |-> "idle"]
    /\ stk = [t \in Threads |-> <<>>]
    /\ call = [t \in Threads |-> NoCall]
    /\ res = [t \in Threads |-> NoRes]
    /\ cnt = [t \in Threads |-> NoCnt]
    /\ ncalls = [t \in Threads |-> 0]
    /\ known = {1}
    /\ faulted = FALSE
    /\ users = [u \in Usernames |-> NoUser]
    /\ collection = NoCollection
    /\ target = NoTarget
    /\ pipe = NoPipe
    /\ orch = NoOrch

\* one caller calls the create and update paths over a connected manager
NextCrud ==
    /\ ncalls["t1"] < MaxCrudCalls
    /\ \E path \in CreatePaths \cup UpdatePaths, o \in CreateManyOutcomes :
          \E arg \in PathArgs(path) : CrudPath("t1", path, arg, o)

SpecCrud == InitTransfer /\ [][NextCrud]_vars

\* one caller runs transfer_data, again and again
\* the orders in which the table being transferred may be scanned
ScansNow == IF pipe.ti \in 1..Len(pipe.tables) THEN Scans(pipe.tables[pipe.ti]) ELSE {}

NextTransfer ==
    \/ /\ ncalls["t1"] < MaxTransfers
       /\ \E n \in BatchSizes, tables \in TableOrders : StartTransferData("t1", n, tables)
    \/ TransferDataNextTable("t1", Counts)
    \/ \E scan \in ScansNow : TransferTableFetch("t1", scan)
    \/ \E o \in CreateManyOutcomes, j \in 0..1 : TransferTableInsert("t1", o, j)
    \/ TransferDataFinally("t1")

SpecTransfer == InitTransfer /\ [][NextTransfer]_vars

\* one caller runs transfer_data while other sessions insert into and delete
\* from the tables: every query sees the table as it is at that moment
\* the table with a row another session has inserted
Grown(table) == Source[table] \o <<Dict(("id" :> PyInt("9")))>>
\* the table at some moment: its first rows only, all of them, or one more
Snapshots(table) == {SubSeq(Grown(table), 1, k) : k \in 0..Len(Grown(table))}
\* the batch_size arguments, 0 included
AnyBatchSizes == BatchSizes \cup {0}
\* the contents the table being transferred may have when it is queried
SnapshotsNow == IF pipe.ti \in 1..Len(pipe.tables) THEN Snapshots(pipe.tables[pipe.ti]) ELSE {}
\* SELECT COUNT(*) over such contents
CountsNow ==
    IF SnapshotsNow = {} THEN {Counts}
    ELSE {[table \in TableNames |-> Len(s)] : s \in SnapshotsNow}

\* the steps of a running transfer_data: every query and every insert returns
TransferStep(t) ==
    \/ \E counts \in CountsNow : TransferDataNextTable(t, counts)
    \/ \E scan \in SnapshotsNow : TransferTableFetch(t, scan)
    \/ \E o \in CreateManyOutcomes, j \in 0..1 : TransferTableInsert(t, o, j)
    \/ TransferDataFinally(t)

NextTransferLive ==
    \/ /\ ncalls["t1"] < MaxLiveTransfers
       /\ \E n \in AnyBatchSizes, tables \in TableOrders : StartTransferData("t1", n, tables)
    \/ TransferStep("t1")

\* the caller's thread keeps running: a step of transfer_data that can be taken
\* is taken
SpecTransferLive ==
    InitTransfer /\ [][NextTransferLive]_vars /\ WF_vars(TransferStep("t1"))

(***************************************************************************)
(* What the claims speak of.                                               *)
(***************************************************************************)
\* the top-level call op of thread t has returned or raised
Finished(t, op) == pc[t] = "idle" /\ call[t].op = op /\ res[t].kind # "none"

\* the positions of seq at which the call did op
At(seq, op) == {k \in 1..Len(seq) : seq[k].op = op}
Count(seq, op) == Cardinality(At(seq, op))
Outs(seq, op) == {seq[k].out : k \in At(seq, op)}
Last(seq) == seq[Len(seq)]

\* the lifecycle state of instance i
ConnState(i) ==
    IF inst[i].client = NoId THEN "Disconnected"
    ELSE IF ~inst[i].initialized THEN "Connecting"
    ELSE IF handles[inst[i].client].as_configured THEN "Connected"
    ELSE "ConnectedNoAuth"

\* C1: with max_tries = 3, an operation that raises a retryable failure on every
\* attempt (the verb of _execute_operation, the liveness ping of get_client) is
\* attempted exactly 3 times, and then the caller observes one error.
C1_RetryExhaustion ==
    \A t \in Threads :
        /\ (Finished(t, "execute") /\ Count(cnt[t], "call") > 0
                /\ Outs(cnt[t], "call") \subseteq ConnectionFailures)
            => (Count(cnt[t], "call") = max_tries /\ res[t].kind = "error")
        /\ (Finished(t, "get_client") /\ Count(cnt[t], "ping") > 0
                /\ Outs(cnt[t], "ping") \subseteq ConnectionFailures)
            => (Count(cnt[t], "ping") = max_tries /\ res[t].kind = "error")

\* C2: a failure outside the retryable set ends the call at once (it is the last
\* thing the call did: no wait, no further attempt), and a retryable failure
\* reaches the caller only when the operation that raised it was attempted
\* max_tries times.
C2_PropagationPolicy ==
    \A t \in Threads :
        /\ \A k \in 1..Len(cnt[t]) :
              cnt[t][k].out \notin ({OK} \cup ConnectionFailures)
                  => (k = Len(cnt[t]) /\ pc[t] = "idle" /\ Count(cnt[t], "wait") = 0)
        /\ (pc[t] = "idle" /\ res[t].kind = "error" /\ cnt[t] # <<>>
                /\ Last(cnt[t]).out \in ConnectionFailures
                \* the operations under a backoff decorator
                /\ (call[t].op \in {"execute", "get_client"} \/ Last(cnt[t]).op = "build"))
            => Count(cnt[t], Last(cnt[t]).op) = max_tries

\* C3: every failure that leaves _execute_operation, a failure to obtain the
\* client handle included, is a MongoDBCrudError that carries the verb, the
\* collection and the underlying cause.
C3_SingleErrorKind ==
    \A t \in Threads :
        (Finished(t, "execute") /\ res[t].kind = "error")
            => /\ res[t].exc = "MongoDBCrudError"
               /\ res[t].verb = call[t].verb
               /\ res[t].coll = call[t].coll
               /\ res[t].cause \in ClientFailures

\* C6: get_client returns the live handle of the manager (the last thing it did
\* is a successful ping of it), and the caller sees a retryable liveness failure
\* only when the server stayed unreachable for all max_tries liveness checks.
C6_GetClientLive ==
    \A t \in Threads :
        Finished(t, "get_client") =>
            /\ res[t].kind = "ok" =>
                  /\ res[t].value # NoId
                  /\ res[t].value = inst[Self(t)].client
                  /\ ~handles[res[t].value].closed
                  /\ Last(cnt[t]) = Did("ping", OK)
            /\ (res[t].kind = "error" /\ Outs(cnt[t], "ping") \cap ConnectionFailures # {})
                  => Cardinality({k \in At(cnt[t], "ping") :
                                      cnt[t][k].out \in ConnectionFailures}) = max_tries

\* C7: a connect whose liveness verification fails with an authorization error
\* retries once without authentication and ends in ConnectedNoAuth.
C7_AuthFallback ==
    \A t \in Threads :
        (Finished(t, "construct") /\ AuthFailure \in Outs(cnt[t], "ping"))
            => /\ res[t].kind = "ok"
               /\ ConnState(Self(t)) = "ConnectedNoAuth"
               /\ Count(cnt[t], "build") = 2

\* C8: after a connect has failed for another reason than an authorization
\* error, the manager holds no client handle and no database handle, the handles
\* it built are closed, and it is Disconnected.
C8_AbortReleases ==
    \A t \in Threads :
        (Finished(t, "construct") /\ res[t].kind = "error" /\ res[t].exc # AuthFailure)
            => /\ inst[Self(t)].client = NoId
               /\ inst[Self(t)].db = NoId
               /\ ConnState(Self(t)) = "Disconnected"
               /\ \A h \in 1..Len(handles) : handles[h].inst = Self(t) => handles[h].closed

\* the handles built for instance i
HandlesOf(i) == {h \in 1..Len(handles) : handles[h].inst = i}

\* thread t's call is a construction of the shared instance that has passed __new__
SharedConstruct(t) ==
    call[t].op = "construct" /\ ~call[t].temporary /\ call[t].self # NoId

\* C4: while the client raises nothing, the threads that construct the shared
\* manager or call get_client on it build one client handle at most, and each of
\* their calls returns: the constructor the shared instance, get_client the one
\* handle.
C4_OneSharedHandle ==
    ~faulted =>
        /\ instance # NoId => Cardinality(HandlesOf(instance)) <= 1
        /\ \A t \in Threads :
              /\ (Finished(t, "construct") /\ ~call[t].temporary)
                    => (res[t].kind = "ok" /\ inst[instance].client # NoId)
              /\ (Finished(t, "get_client") /\ Self(t) = instance)
                    => (res[t].kind = "ok" /\ HandlesOf(instance) = {res[t].value})

\* thread t takes this step inside a construction of a temporary instance
TemporaryStep(t) ==
    /\ pc'[t] # pc[t] \/ call'[t] # call[t]
    /\ call'[t].op = "construct"
    /\ call'[t].temporary

\* C5: every non-temporary construction yields the one shared instance; a
\* temporary construction yields an instance of its own, and none of its steps
\* changes MongoDBManager._instance, the shared instance's fields (its config and
\* its client handle among them) or the handles built for it.
C5_StateSharedInstance ==
    /\ Cardinality({i \in InstIds : inst[i].exists /\ ~inst[i].is_temporary}) <= 1
    /\ \A t \in Threads :
          /\ SharedConstruct(t) => (call[t].self = instance /\ ~inst[instance].is_temporary)
          /\ (call[t].op = "construct" /\ call[t].temporary) =>
                /\ call[t].self # instance
                /\ inst[call[t].self].is_temporary
                /\ \A u \in Threads \ {t} :
                      call[u].op = "construct" => call[u].self # call[t].self

C5_FrameSharedInstance ==
    \A t \in Threads :
        TemporaryStep(t) =>
            /\ instance' = instance
            /\ instance # NoId =>
                  /\ inst'[instance] = inst[instance]
                  /\ \A h \in 1..Len(handles) :
                        handles[h].inst = instance => handles'[h] = handles[h]
                  /\ \A h \in 1..Len(handles') : h > Len(handles) => handles'[h].inst # instance

C5_SharedInstance == []C5_StateSharedInstance /\ [][C5_FrameSharedInstance]_vars

\* C5 happens: a non-temporary and a temporary construction have both returned
C5_Witness ==
    \E t, u \in Threads :
        /\ Finished(t, "construct") /\ ~call[t].temporary /\ res[t].kind = "ok"
        /\ Finished(u, "construct") /\ call[u].temporary /\ res[u].kind = "ok"
        /\ res[t].value = instance
        /\ res[u].value # instance
        /\ inst[instance].client # NoId

\* the failures the client was made to answer with during thread t's call (the
\* server's own answers, codes 51003 and 11, are none of them)
Faults(t) == {k \in 1..Len(cnt[t]) : cnt[t][k].out \in AdminOutcomes \ {OK}}

\* every thread has made one call, manage_user(action='ensure_exists'), all for
\* the same user with the same role list
OnlyEnsureExists ==
    \A t, u \in Threads :
        /\ ncalls[t] = 1
        /\ call[t].op = "manage_user"
        /\ call[t].action = "ensure_exists"
        /\ ~NoRoles(call[t].roles) /\ ~NoPassword(call[t].password)
        /\ call[t].username = call[u].username
        /\ call[t].roles = call[u].roles

\* C9: when the threads run manage_user(action='ensure_exists') concurrently for
\* the same user with the same role list, every call that has finished has
\* returned without an exception, and once all have finished the user exists
\* with exactly that role list.
C9_ConcurrentEnsureExists ==
    OnlyEnsureExists =>
        /\ \A t \in Threads : Finished(t, "manage_user") => res[t].kind = "ok"
        /\ (\A t \in Threads : Finished(t, "manage_user")) =>
              \A t \in Threads :
                  /\ users[call[t].username].present
                  /\ users[call[t].username].roles = call[t].roles

\* thread t has finished a manage_user(action=a) call that repeats its previous
\* call, which ended as prev, and the client failed nowhere during the repetition
Repeated(t, a, prev) ==
    /\ Finished(t, "manage_user")
    /\ call[t].action = a
    /\ call[t].prev = prev
    /\ Faults(t) = {}

\* C10: an ensure_exists call that repeats the call before it, which succeeded,
\* with the same password and role list, raises nothing, succeeds, and leaves
\* every user as the first call left it, whatever the user was before the two.
C10_EnsureExistsIdempotent ==
    \A t \in Threads :
        Repeated(t, "ensure_exists", "succeeded") =>
            /\ res[t].kind = "ok"
            /\ res[t].result.success
            /\ users = call[t].before
            /\ users[call[t].username].present
            /\ users[call[t].username].roles = call[t].roles

\* C10 happens: the second of two ensure_exists calls has returned, and it has
\* issued updateUser for the user the first call left
C10_Witness ==
    \E t \in Threads :
        /\ Repeated(t, "ensure_exists", "succeeded")
        /\ res[t].result.updated
        /\ \E k \in 1..Len(cnt[t]) : cnt[t][k] = Did("updateUser", OK)
        /\ ~NoPassword(call[t].password)

\* the administrative commands thread t's call has issued
Issued(t) == {cnt[t][k].op : k \in 1..Len(cnt[t])} \ {"ping", "usersInfo"}

\* thread t has finished a manage_user(action=a) call during which the client
\* failed nowhere, so that the probe has answered
Managed(t, a) ==
    /\ Finished(t, "manage_user")
    /\ call[t].action = a
    /\ Faults(t) = {}

\* C11: create on a user that is present returns the message 'User already
\* exists' without success, issues no command and leaves the user as it was; on
\* an absent user it issues createUser exactly when a password and a role list
\* are both given, and otherwise raises and issues no command.
C11_Create ==
    \A t \in Threads :
        Managed(t, "create") =>
            LET u == call[t].username
                complete == call[t].password # None /\ call[t].roles # <<>>
            IN IF call[t].before[u].present
               THEN /\ res[t].kind = "ok"
                    /\ ~res[t].result.success
                    /\ res[t].result.message = "User already exists"
                    /\ Issued(t) = {}
                    /\ users = call[t].before
               ELSE IF complete
               THEN /\ Issued(t) = {"createUser"}
                    /\ res[t].kind = "ok" /\ res[t].result.created
                    /\ users[u] = [present |-> TRUE, pwd |-> call[t].password,
                                   roles |-> call[t].roles]
               ELSE /\ res[t].kind = "error"
                    /\ Issued(t) = {}
                    /\ users = call[t].before

\* C11 happens: a create call that repeats a create call which succeeded has
\* found the user present and has returned the message
C11_Witness ==
    \E t \in Threads :
        /\ Managed(t, "create")
        /\ call[t].before[call[t].username].present
        /\ res[t].result.message = "User already exists"
        /\ call[t].prev = "succeeded"

\* C12: update and delete on an absent user return the message 'User does not
\* exist' without success, issue no command and leave the users as they were;
\* no update call makes an absent user present; update on a present user
\* without a role list raises, issues no command and leaves the user's roles.
C12_UpdateDeleteAbsent ==
    \A t \in Threads :
        LET u == call[t].username IN
        /\ (Managed(t, "update") \/ Managed(t, "delete")) /\ ~call[t].before[u].present
              => /\ res[t].kind = "ok"
                 /\ ~res[t].result.success
                 /\ res[t].result.message = "User does not exist"
                 /\ Issued(t) = {}
                 /\ users = call[t].before
        /\ (call[t].op = "manage_user" /\ call[t].action = "update"
                /\ ~call[t].before[u].present)
              => ~users[u].present
        /\ (Managed(t, "update") /\ call[t].before[u].present /\ call[t].roles = <<>>)
              => /\ res[t].kind = "error"
                 /\ Issued(t) = {}
                 /\ users = call[t].before

\* C12 happens: an update call with a role list has found the user absent and
\* has returned the message
C12_Witness ==
    \E t \in Threads :
        /\ Managed(t, "update")
        /\ ~call[t].before[call[t].username].present
        /\ call[t].roles # <<>>
        /\ res[t].result.message = "User does not exist"

\* the messages with which manage_user tells that the user is not there
NotFoundMessages == {"User does not exist", "User not found"}

\* C13 as stated: a create, update or delete call that repeats the call before
\* it, which succeeded, returns the existence mismatch ('User already exists'
\* for create, a not-found message for update and for delete) and not success.
C13_NotIdempotent ==
    \A t \in Threads :
        /\ Repeated(t, "create", "succeeded")
              => (res[t].kind = "ok" /\ ~res[t].result.success
                    /\ res[t].result.message = "User already exists")
        /\ (Repeated(t, "update", "succeeded") \/ Repeated(t, "delete", "succeeded"))
              => (res[t].kind = "ok" /\ ~res[t].result.success
                    /\ res[t].result.message \in NotFoundMessages)

\* C13, amended: a repeated create returns 'User already exists' and a repeated
\* delete returns 'User does not exist', both without success and without a
\* command; a repeated update succeeds again, with the roles it set before.
C13_NotIdempotentButUpdate ==
    \A t \in Threads :
        /\ Repeated(t, "create", "succeeded")
              => (res[t].kind = "ok" /\ ~res[t].result.success /\ Issued(t) = {}
                    /\ res[t].result.message = "User already exists")
        /\ Repeated(t, "delete", "succeeded")
              => (res[t].kind = "ok" /\ ~res[t].result.success /\ Issued(t) = {}
                    /\ res[t].result.message = "User does not exist")
        /\ Repeated(t, "update", "succeeded")
              => (res[t].kind = "ok" /\ res[t].result.success /\ res[t].result.updated
                    /\ Issued(t) = {"updateUser"}
                    /\ users = call[t].before)

\* C13 happens: a delete call that repeats a delete call which succeeded has
\* returned
C13_Witness ==
    \E t \in Threads :
        /\ Repeated(t, "delete", "succeeded")
        /\ res[t].result.message = "User does not exist"
        /\ ~users[call[t].username].present

\* the mutating administrative commands
MutatingCommands == {"createUser", "updateUser", "dropUser"}

\* the positions of cnt[t] at which the probe of thread t's manage_user call
\* ended: the usersInfo command, or the ping of user_exists' own get_client (the
\* call's second ping) when it failed with an authorization error
ProbeAt(t) ==
    {j \in 1..Len(cnt[t]) :
        \/ cnt[t][j].op = "usersInfo"
        \/ j = 2 /\ cnt[t][j] = Did("ping", AuthFailure)}

\* the probe of thread t's call failed with an authorization error
ProbeUnauthorized(t) == \E j \in ProbeAt(t) : cnt[t][j].out = AuthFailure

\* C14: in every manage_user call the probe comes before any mutating command;
\* a probe that fails with an authorization error is taken as 'the user does not
\* exist' (the call goes on as for an absent user and does not end with the
\* probe's error); an authorization failure of the command itself reaches the
\* caller.
C14_ProbeThenCommand ==
    \A t \in Threads :
        call[t].op = "manage_user" =>
            /\ \A k \in 1..Len(cnt[t]) :
                  cnt[t][k].op \in MutatingCommands
                      => /\ \E j \in ProbeAt(t) : j < k
                         /\ (cnt[t][k].out = AuthFailure /\ pc[t] = "idle")
                               => (res[t].kind = "error" /\ res[t].exc = AuthFailure)
            /\ (ProbeUnauthorized(t) /\ pc[t] = "mu_dispatch")
                  => ~stk[t][1].user_exists
            /\ (ProbeUnauthorized(t) /\ pc[t] = "idle")
                  => /\ Issued(t) \subseteq {"createUser"}
                     /\ call[t].action \in {"update", "delete"}
                           => (res[t].kind = "ok"
                                 /\ res[t].result.message = "User does not exist")
                     /\ (res[t].kind = "error" /\ res[t].exc = AuthFailure)
                           => Last(cnt[t]) = Did("createUser", AuthFailure)
                     /\ (call[t].action \in {"create", "ensure_exists"}
                           /\ call[t].password # None /\ call[t].roles # <<>>)
                           => Issued(t) = {"createUser"}

\* C14 happens: the probe of a call was not authorized, the call went on to
\* createUser, which was not authorized either, and the call has raised that
C14_Witness ==
    \E t \in Threads :
        /\ Finished(t, "manage_user")
        /\ \E j \in ProbeAt(t) : cnt[t][j] = Did("usersInfo", AuthFailure)
        /\ Last(cnt[t]) = Did("createUser", AuthFailure)
        /\ res[t].exc = AuthFailure

\* what the caller of thread t's finished manage_user call can tell
AlreadyExists(t) == res[t].kind = "ok" /\ res[t].result.message = "User already exists"
NotFound(t) == res[t].kind = "ok" /\ res[t].result.message \in NotFoundMessages
InvalidAction(t) == res[t].kind = "error" /\ res[t].exc = "ValueError(Invalid action)"
Succeeded(t) == res[t].kind = "ok" /\ res[t].result.success

Created(t) == Finished(t, "create_user") /\ res[t].kind = "ok"
CreateRefused(t) ==
    /\ Finished(t, "create_user")
    /\ res[t].kind = "error"
    /\ res[t].exc = "ValueError(already exists)"

\* C16: the username is a unique key: in every state at most one stored account
\* has a given username, and of two create_user calls for one username that
\* have both ended at most one has succeeded
C16_UniqueUsername ==
    /\ UniqueUsernames(collection.docs)
    /\ (Created("t1") /\ Created("t2")) => call["t1"].username # call["t2"].username

\* C17: a create_user call that finds its username stored, at its own check or
\* at the unique index when it inserts, ends with 'already exists' whatever the
\* other arguments are, and its step leaves every stored account as it was
C17_CreateNotIdempotent ==
    [][\A t \in Threads :
         LET stored == Matching(collection.docs, call[t].username) # {}
             checked == /\ pc[t] = "cu_check" /\ pc'[t] # "cu_check"
                        /\ Last(cnt'[t]) = Did("count_documents", OK)
             inserting == /\ pc[t] = "cu_insert" /\ pc'[t] # "cu_insert"
                          /\ Last(cnt'[t]).out \notin ConnectionFailures
                          /\ collection.unique
         IN (stored /\ (checked \/ inserting)) =>
                /\ pc'[t] = "idle"
                /\ res'[t].kind = "error"
                /\ res'[t].exc = "ValueError(already exists)"
                /\ collection' = collection]_vars

\* a create_user with another email, role, secret and flag than the stored
\* account's was refused, and the account is the one stored before
C17_Witness ==
    /\ CreateRefused("t1")
    /\ call["t1"].email = "a@y.org"
    /\ ncalls["t2"] = 0
    /\ collection.docs = <<Ann(TRUE)>>

\* C18: authenticate_user never raises: every call returns, and it returns
\* true exactly when the lookup succeeded and the account stored under the
\* username is active and its hashed secret is the hash of the secret given;
\* so it returns false for a username that is not stored, for an inactive
\* account, for another secret and when the lookup fails
C18_AuthenticateNeverRaises ==
    [][\A t \in Threads :
         LET k == FindOne(collection.docs, call'[t].username)
             d == collection.docs[k]
             correct == /\ k # 0
                        /\ "active" \in DOMAIN d /\ d.active
                        /\ "hashed_password" \in DOMAIN d
                        /\ d.hashed_password.digest =
                              <<d.hashed_password.salt, call'[t].password>>
         IN (call'[t].op = "authenticate_user" /\ ncalls'[t] = ncalls[t] + 1) =>
                /\ pc'[t] = "idle"
                /\ res'[t].kind = "ok"
                /\ res'[t].truth <=> (cnt'[t] = <<Did("find_one", OK)>> /\ correct)]_vars


\* the role and the permission set a stored document carries
RoleOf(d) == IF "role" \in DOMAIN d THEN d.role ELSE None
PermissionsOf(d) == IF "permissions" \in DOMAIN d THEN d.permissions ELSE None

\* C19: a step of update_user_role leaves every stored account either with the
\* role and the permission set it had or with the new role and the permission
\* set the role table gives for it, changes no other field and stores or
\* removes no account; with a role outside the table, or when the update
\* fails, it changes nothing
C19_RoleAndPermissionsTogether ==
    [][\A t \in Threads :
         LET new_role == call'[t].role
             docs == collection.docs
         IN (call'[t].op = "update_user_role" /\ ncalls'[t] = ncalls[t] + 1) =>
              /\ collection'.unique = collection.unique
              /\ Len(collection'.docs) = Len(docs)
              /\ \A k \in 1..Len(docs) :
                   LET d == docs[k]
                       e == collection'.docs[k]
                   IN \/ e = d
                      \/ /\ new_role \in {"viewer", "admin"}
                         /\ res'[t].kind = "ok"
                         /\ d.username = call'[t].username
                         /\ RoleOf(e) = new_role
                         /\ PermissionsOf(e) =
                              IF new_role = "viewer" THEN <<"read">>
                              ELSE <<"readWrite", "userAdmin">>
                         /\ DOMAIN e = DOMAIN d \cup {"role", "permissions"}
                         /\ \A f \in DOMAIN d \ {"role", "permissions"} : e[f] = d[f]
              /\ (new_role = "root" \/ res'[t].kind = "error") => collection' = collection]_vars

\* update_user_role("ann", "admin") has returned true and the account of ann,
\* a viewer before, is stored with the role admin and admin's permission set
C19_Witness ==
    /\ Finished("t1", "update_user_role")
    /\ call["t1"].role = "admin"
    /\ res["t1"].kind = "ok" /\ res["t1"].truth
    /\ ncalls["t2"] = 0
    /\ \E a \in BOOLEAN :
          collection.docs = <<[Ann(a) EXCEPT !.role = "admin",
                                             !.permissions = <<"readWrite", "userAdmin">>]>>

\* every stored document has a role and the role is in the table
RolesInTable ==
    \A k \in 1..Len(collection.docs) :
        RoleOf(collection.docs[k]) \in
            {"superadmin", "admin", "dataengineer", "energyanalyst", "viewer",
             "sensormanager", "facilitymanager", "auditor", "mlmodeltrainer", "apiclient"}

\* thread t takes a step of a call that was given the role "root"
UnknownRoleStep(t) ==
    \/ /\ call[t].op = "create_user" /\ call[t].role = "root"
       /\ pc[t] # "idle" /\ pc'[t] = "idle"
    \/ /\ ncalls'[t] = ncalls[t] + 1
       /\ \/ call'[t].op = "update_user_role" /\ call'[t].role = "root"
          \/ /\ call'[t].op = "update_user"
             /\ "role" \in DOMAIN call'[t].update_data
             /\ call'[t].update_data.role = "root"

\* C20: in every state every stored account has a role of the fixed table, and
\* a create_user, update_user or update_user_role call given a role outside the
\* table ends with an error and leaves the store as it was
C20_RolesInTable ==
    /\ []RolesInTable
    /\ [][\A t \in Threads :
            UnknownRoleStep(t) => res'[t].kind = "error" /\ collection' = collection]_vars

\* the usernames stored, position by position (None: a document without one)
StoredNames(docs) ==
    [k \in 1..Len(docs) |-> IF "username" \in DOMAIN docs[k] THEN docs[k].username ELSE None]

\* C21: a step of update_user whose update_data has a username key changes the
\* username of no stored account: every account stored before keeps its
\* username, an account the call stores carries the target username, and so no
\* account has taken the supplied one
C21_UsernameKept ==
    [][\A t \in Threads :
         LET old == StoredNames(collection.docs)
             new == StoredNames(collection'.docs)
         IN (/\ call'[t].op = "update_user" /\ ncalls'[t] = ncalls[t] + 1
             /\ "username" \in DOMAIN call'[t].update_data) =>
              /\ Len(new) >= Len(old)
              /\ SubSeq(new, 1, Len(old)) = old
              /\ \A k \in (Len(old) + 1)..Len(new) : new[k] = call'[t].username
              /\ \A k \in 1..Len(new) :
                     new[k] = call'[t].update_data.username =>
                         \E j \in 1..Len(old) : old[j] = new[k]]_vars

\* update_user("ann", {"username": "eve", "active": True}, upsert=True) has
\* returned true over the deactivated account of ann, which is active now and
\* still ann's
C21_Witness ==
    /\ Finished("t1", "update_user")
    /\ "username" \in DOMAIN call["t1"].update_data
    /\ res["t1"].kind = "ok" /\ res["t1"].truth
    /\ ncalls["t2"] = 0
    /\ collection.docs = <<Ann(TRUE)>>

\* no stored document has a password field, and every hashed_password is a
\* salted digest, not a secret as it was supplied
NoPlaintext ==
    \A k \in 1..Len(collection.docs) :
        LET d == collection.docs[k] IN
        /\ "password" \notin DOMAIN d
        /\ "hashed_password" \in DOMAIN d =>
              d.hashed_password \in [salt : {"salt1"},
                                     digest : {<<"salt1", "s1">>, <<"salt1", "s2">>}]

\* the hashes stored
StoredHashes(docs) ==
    {docs[k].hashed_password : k \in {j \in 1..Len(docs) : "hashed_password" \in DOMAIN docs[j]}}

\* thread t's step stores a secret: the insert_one of create_user, or the
\* update_one of an update_user whose update_data has a password and which
\* found or upserted a document
StoresSecret(t) ==
    \/ /\ call[t].op = "create_user" /\ pc[t] = "cu_insert"
       /\ pc'[t] = "idle" /\ res'[t].kind = "ok"
    \/ /\ call'[t].op = "update_user" /\ ncalls'[t] = ncalls[t] + 1
       /\ "password" \in DOMAIN call'[t].update_data
       /\ res'[t].kind = "ok"
       /\ FindOne(collection.docs, call'[t].username) # 0 \/ call'[t].upsert

\* the secret that step supplies and the position of the document it writes
SuppliedSecret(t) ==
    IF call'[t].op = "create_user" THEN call'[t].password
    ELSE call'[t].update_data.password
WrittenAt(t) ==
    IF call'[t].op = "update_user" /\ FindOne(collection.docs, call'[t].username) # 0
    THEN FindOne(collection.docs, call'[t].username)
    ELSE Len(collection.docs) + 1

\* a step that stores a secret stores its hash: the stored hash verifies against
\* that secret and against no other; any other step stores no new hash
HashOfLatest ==
    \A t \in Threads :
        /\ StoresSecret(t) =>
             LET h == collection'.docs[WrittenAt(t)].hashed_password IN
             /\ h.digest = <<h.salt, SuppliedSecret(t)>>
             /\ \A q \in {"s1", "s2"} : verify_password(q, h) <=> q = SuppliedSecret(t)
        /\ (pc'[t] # pc[t] \/ ncalls'[t] # ncalls[t]) /\ ~StoresSecret(t) =>
             StoredHashes(collection'.docs) \subseteq StoredHashes(collection.docs)

\* after a step that stores a secret, authenticate_user succeeds with that
\* secret and with no other, whenever the lookup succeeds
AuthenticatesLatest(t) ==
    \A q \in {"s1", "s2"} :
        Authenticate(collection'.docs, call'[t].username, q, OK) <=> q = SuppliedSecret(t)

\* C22: no stored account holds a plaintext secret, the stored hash is that of
\* the most recently supplied secret, and authenticate_user succeeds with that
\* secret and fails with every other
C22_SecretsHashed ==
    /\ []NoPlaintext
    /\ [][HashOfLatest /\ \A t \in Threads : StoresSecret(t) => AuthenticatesLatest(t)]_vars

\* s is a prefix of q
IsPrefix(s, q) == Len(s) <= Len(q) /\ SubSeq(q, 1, Len(s)) = s

\* once a create_many has failed, the run fetches nothing more, hands no batch
\* to create_many again (the failed one included) and inserts nothing more; and
\* no step removes a document from a target collection
AbortsTransfer ==
    /\ (pipe.pending # None /\ pipe'.pending # None) =>
          /\ pipe'.fetched = pipe.fetched
          /\ pipe'.passed = pipe.passed
          /\ target' = target
    /\ \A c \in TableNames : IsPrefix(target[c], target'[c])

\* the error of the failed create_many is the error transfer_data raises
PropagatesInsertError ==
    (Finished("t1", "transfer_data") /\ pipe.pending # None) =>
        res["t1"].kind = "error" /\ res["t1"].exc = pipe.pending

\* C23: when create_many fails for a batch, transfer_data raises that error,
\* fetches and inserts no further batch of that table and no later table, does
\* not hand the batch to create_many again, and the documents of the earlier
\* batches stay in the target collection
C23_BatchFailureAborts == [][AbortsTransfer]_vars /\ []PropagatesInsertError

\* how often document d occurs in the sequence s
Occurrences(s, d) == Cardinality({k \in 1..Len(s) : s[k] = d})

\* every row of the source, as it is converted and stamped, is in its target
\* collection n times, and nothing else is
RowsPresent(n) ==
    \A table \in TableNames :
        /\ Len(target[table]) = n * Len(Source[table])
        /\ \A k \in 1..Len(Source[table]) :
              Occurrences(target[table],
                          StampCreatedAt(convert_decimals_to_float(Source[table][k]), "now")) = n

\* C24: transfer_data run twice over the same source, the target collections
\* not cleared and no call into either store failing, completes both times and
\* leaves every source row twice in its target collection
C24_TransferTwiceDuplicates ==
    (ncalls["t1"] = 2 /\ Finished("t1", "transfer_data") /\ ~faulted) =>
        /\ res["t1"].kind = "ok"
        /\ RowsPresent(2)

\* y is x with every Decimal, at every depth of nested dicts and lists, replaced
\* by the float of its digits, and with every key and every other value as in x
RECURSIVE ConvertedEverywhere(_, _)
ConvertedEverywhere(x, y) ==
    IF x.kind = "Decimal" THEN y = Float(x.v)
    ELSE IF x.kind = "dict"
    THEN /\ y.kind = "dict"
         /\ DOMAIN y.v = DOMAIN x.v
         /\ \A key \in DOMAIN x.v : ConvertedEverywhere(x.v[key], y.v[key])
    ELSE IF x.kind = "list"
    THEN /\ y.kind = "list"
         /\ Len(y.v) = Len(x.v)
         /\ \A k \in 1..Len(x.v) : ConvertedEverywhere(x.v[k], y.v[k])
    ELSE y = x

\* C25: every document handed to create_many is a row of its table with every
\* Decimal converted to float at every nesting depth, inside nested mappings
\* and nested lists alike, and with all keys and all other values unchanged
C25_DecimalsConverted ==
    \A n \in 1..Len(pipe.passed) :
        LET batch == pipe.passed[n] IN
        \A k \in 1..Len(batch.documents) :
            \E r \in 1..Len(Source[batch.table]) :
                ConvertedEverywhere(Source[batch.table][r], batch.documents[k])

\* value v is the timestamp the caller supplied under key in d, or, where the
\* caller supplied none, a timestamp
TimestampKept(d, key, v) ==
    IF key \in DOMAIN d.v THEN v = d.v[key] ELSE v.kind = "datetime"

\* the field assignments of an update as the caller passed it
Assignments(u) ==
    IF "$set" \in DOMAIN u.v THEN u.v["$set"]
    ELSE IF \A key \in DOMAIN u.v : ~IsOperator(key) THEN u
    ELSE Dict(<<>>)

\* C26: a finished create path has handed every document on with a _created_at
\* and a finished update path has handed every update on with a _updated_at in
\* its $set, the value the caller supplied where one was supplied
C26_Timestamps ==
    LET arg == call["t1"].arg
        sent == res["t1"].sent
    IN
    /\ \A path \in CreatePaths :
         Finished("t1", path) =>
            \A n \in 1..Len(sent) : \A k \in 1..Len(sent[n].documents) :
                LET d == sent[n].documents[k] IN
                /\ "_created_at" \in DOMAIN d.v
                /\ TimestampKept(arg[k], "_created_at", d.v["_created_at"])
    /\ \A path \in UpdatePaths :
         Finished("t1", path) =>
            \A n \in 1..Len(sent) :
                LET u == sent[n].update IN
                /\ "$set" \in DOMAIN u.v
                /\ "_updated_at" \in DOMAIN u.v["$set"].v
                /\ TimestampKept(Assignments(arg[n]), "_updated_at",
                                 u.v["$set"].v["_updated_at"])

(***************************************************************************)
(* MongoDBManager.execute_operation and its operation history              *)
(***************************************************************************)
\* self.max_operation_history = 1000
max_operation_history == 1000

\* calls of execute_operation the threads may start in one behaviour
MaxHistoryCalls == 3

\* operation_record: the call it describes and, on the error path, "error"
OperationRecord(by, n, error) == [by |-> by, n |-> n, error |-> error]

\* a history of n records of calls that returned before the behaviour begins
Earlier(n) == [k \in 1..n |-> OperationRecord("earlier", k, None)]

ExecuteOutcomes == {OK, "OperationFailure"}

\* the outcome of the collection access and of method(query, **options)
Outcome(t) == cnt[t][1].out

StartManagerExecute(t, i) ==
    /\ inst[i].exists
    /\ Begin(t, [NoCall EXCEPT !.op = "execute_operation", !.self = i])
    /\ pc' = [pc EXCEPT ![t] = "eo_call"]
    /\ UNCHANGED <<instance, lock, inst, handles, stk, known, faulted, users, collection,
                   target, pipe, orch>>

\* with self.collection_context(...) as collection: method(query, **options)
ManagerExecuteCall(t, o) ==
    /\ pc[t] = "eo_call"
    /\ cnt' = [cnt EXCEPT ![t] = Append(@, Did("call", o))]
    /\ pc' = [pc EXCEPT ![t] = "eo_append"]
    /\ UNCHANGED <<instance, lock, inst, handles, stk, call, res, ncalls, known, faulted,
                   users, collection, target, pipe, orch>>

\* self.operation_history.append(operation_record), in the try block when the
\* method returned and in the except block (with "error") when it raised
ManagerExecuteAppend(t) ==
    /\ pc[t] = "eo_append"
    /\ inst' = [inst EXCEPT ![Self(t)].operation_history =
                  Append(@, OperationRecord(t, ncalls[t],
                                            IF Outcome(t) = OK THEN None ELSE Outcome(t)))]
    /\ pc' = [pc EXCEPT ![t] = "eo_len"]
    /\ UNCHANGED <<instance, lock, handles, stk, call, res, cnt, ncalls, known, faulted,
                   users, collection, target, pipe, orch>>

\* return result, or the bare raise of the except block
ManagerExecuteEnd(t) ==
    /\ pc' = [pc EXCEPT ![t] = "idle"]
    /\ res' = [res EXCEPT ![t] =
                 IF Outcome(t) = OK THEN [NoRes EXCEPT !.kind = "ok"]
                 ELSE [NoRes EXCEPT !.kind = "error", !.exc = Outcome(t)]]

\* if len(self.operation_history) > self.max_operation_history
ManagerExecuteLen(t) ==
    /\ pc[t] = "eo_len"
    /\ IF Len(inst[Self(t)].operation_history) > max_operation_history
       THEN /\ pc' = [pc EXCEPT ![t] = "eo_pop"]
            /\ UNCHANGED res
       ELSE ManagerExecuteEnd(t)
    /\ UNCHANGED <<instance, lock, inst, handles, stk, call, cnt, ncalls, known, faulted,
                   users, collection, target, pipe, orch>>

\* self.operation_history.pop(0)
ManagerExecutePop(t) ==
    /\ pc[t] = "eo_pop"
    /\ inst' = [inst EXCEPT ![Self(t)].operation_history = Tail(@)]
    /\ ManagerExecuteEnd(t)
    /\ UNCHANGED <<instance, lock, handles, stk, call, cnt, ncalls, known, faulted, users,
                   collection, target, pipe, orch>>

\* a connected manager whose history is empty, one short of full, or full
HistoryLengths == {0, max_operation_history - 1, max_operation_history}

InitHistory ==
    /\ instance = 1
    /\ lock = None
    /\ \E n \in HistoryLengths :
         inst = [i \in InstIds |->
                   IF i = 1 THEN [exists |-> TRUE, is_temporary |-> FALSE, initialized |-> TRUE,
                                  db_config |-> "cfgA", client |-> 1, db |-> 1,
                                  operation_history |-> Earlier(n)]
                   ELSE NoInst]
    /\ handles = <<[inst |-> 1, cfg |-> "cfgA", as_configured |-> TRUE, closed |-> FALSE]>>
    /\ pc = [t \in Threads |-> "idle"]
    /\ stk = [t \in Threads |-> <<>>]
    /\ call = [t \in Threads |-> NoCall]
    /\ res = [t \in Threads |-> NoRes]
    /\ cnt = [t \in Threads |-> NoCnt]
    /\ ncalls = [t \in Threads |-> 0]
    /\ known = {1}
    /\ faulted = FALSE
    /\ users = [u \in Usernames |-> NoUser]
    /\ collection = NoCollection
    /\ target = NoTarget
    /\ pipe = NoPipe
    /\ orch = NoOrch

\* the threads call execute_operation on the one manager concurrently
NextHistory ==
    \E t \in Threads :
        \/ /\ Started < MaxHistoryCalls
           /\ StartManagerExecute(t, 1)
        \/ \E o \in ExecuteOutcomes : ManagerExecuteCall(t, o)
        \/ ManagerExecuteAppend(t)
        \/ ManagerExecuteLen(t)
        \/ ManagerExecutePop(t)

SpecHistory == InitHistory /\ [][NextHistory]_vars

(***************************************************************************)
(* C27                                                                     *)
(***************************************************************************)
history == inst[1].operation_history

\* the records history holds of the call thread t made last
RecordsOf(t) == {k \in 1..Len(history) : history[k].by = t /\ history[k].n = ncalls[t]}

\* thread t has appended its record and not yet finished the eviction
Updating(t) == pc[t] \in {"eo_len", "eo_pop"}

\* C27: the operation history is a bounded append-only buffer guarded by the
\* manager-level lock: a thread is between its append and its eviction only
\* while it holds the lock, each call of execute_operation that has returned
\* or raised has exactly one record in the history, and once a call has
\* returned the history holds at most max_operation_history records
C27_HistoryBoundedUnderLock ==
    \A t \in Threads :
        /\ Updating(t) => lock = t
        /\ Finished(t, "execute_operation") =>
              /\ Cardinality(RecordsOf(t)) = 1
              /\ Len(history) <= max_operation_history

(***************************************************************************)
(* MongoDBManager.collection_context and the work a caller encloses in it  *)
(***************************************************************************)
\* uses of collection_context the threads may start in one behaviour
MaxScopeCalls == 3

\* the enclosed work: the writes it makes to the collection, in order
Works == {<<1>>, <<1, 2>>}
\* get_collection fails as get_client does when it gives up
EnterOutcomes == {OK, "Exception"}
WorkOutcomes == {OK, "OperationFailure"}

\* the document write number k of thread t's call number n inserts
Written(t, n, k) == [by |-> t, n |-> n, k |-> k]

\* with manager.collection_context("a") as collection: <work>
StartCollectionContext(t, i, work) ==
    /\ inst[i].exists
    /\ Begin(t, [NoCall EXCEPT !.op = "collection_context", !.self = i, !.coll = "a",
                                !.arg = work])
    /\ pc' = [pc EXCEPT ![t] = "cc_enter"]
    /\ UNCHANGED <<instance, lock, inst, handles, stk, known, faulted, users, collection,
                   target, pipe, orch>>

\* collection = self.get_collection(...), before the try: an exception leaves
\* the with statement without running the body or the finally block
CollectionContextEnter(t, o) ==
    /\ pc[t] = "cc_enter"
    /\ cnt' = [cnt EXCEPT ![t] = Append(@, Did("enter", o))]
    /\ IF o = OK
       THEN /\ pc' = [pc EXCEPT ![t] = "cc_work"]
            /\ UNCHANGED res
       ELSE /\ pc' = [pc EXCEPT ![t] = "idle"]
            /\ res' = [res EXCEPT ![t] = [NoRes EXCEPT !.kind = "error", !.exc = o]]
    /\ UNCHANGED <<instance, lock, inst, handles, stk, call, ncalls, known, faulted, users,
                   collection, target, pipe, orch>>

\* yield collection: the next write of the body; a write that succeeds is in
\* the collection at once, one that fails raises into the generator
CollectionContextWork(t, o) ==
    LET k == Count(cnt[t], "call") + 1 IN
    /\ pc[t] = "cc_work"
    /\ cnt' = [cnt EXCEPT ![t] = Append(@, Did("call", o))]
    /\ target' = IF o = OK
                 THEN [target EXCEPT ![call[t].coll] = Append(@, Written(t, ncalls[t], k))]
                 ELSE target
    /\ pc' = [pc EXCEPT ![t] = IF o = OK /\ k < Len(call[t].arg) THEN "cc_work"
                               ELSE "cc_exit"]
    /\ UNCHANGED <<instance, lock, inst, handles, stk, call, res, ncalls, known, faulted,
                   users, collection, pipe, orch>>

\* finally: self._logger.debug(...); the body's exception, if any, goes on to
\* the caller
CollectionContextExit(t) ==
    /\ pc[t] = "cc_exit"
    /\ cnt' = [cnt EXCEPT ![t] = Append(@, Did("release", OK))]
    /\ pc' = [pc EXCEPT ![t] = "idle"]
    /\ res' = [res EXCEPT ![t] =
                 IF Outs(cnt[t], "call") \subseteq {OK}
                 THEN [NoRes EXCEPT !.kind = "ok"]
                 ELSE [NoRes EXCEPT !.kind = "error",
                                    !.exc = CHOOSE e \in Outs(cnt[t], "call") : e # OK]]
    /\ UNCHANGED <<instance, lock, inst, handles, stk, call, ncalls, known, faulted, users,
                   collection, target, pipe, orch>>

\* the threads enclose work in collection_context over a connected manager
NextScope ==
    \E t \in Threads :
        \/ /\ Started < MaxScopeCalls
           /\ \E work \in Works : StartCollectionContext(t, 1, work)
        \/ \E o \in EnterOutcomes : CollectionContextEnter(t, o)
        \/ \E o \in WorkOutcomes : CollectionContextWork(t, o)
        \/ CollectionContextExit(t)

SpecScope == InitTransfer /\ [][NextScope]_vars

(***************************************************************************)
(* C28                                                                     *)
(***************************************************************************)
\* the writes of thread t's last scope that the collection holds
Observable(t) == {k \in 1..Len(target["a"]) :
                    target["a"][k].by = t /\ target["a"][k].n = ncalls[t]}

\* thread t's scope was entered and has ended
ScopeEnded(t) == Finished(t, "collection_context") /\ Count(cnt[t], "call") > 0

\* C28: a scope commits exactly when the enclosed work completes without
\* error and otherwise aborts and propagates the error: a scope that has ended
\* has released what it held, and the collection holds all of its writes when
\* it returned and none of them when it raised
C28_ScopeCommitsOrAborts ==
    \A t \in Threads :
        ScopeEnded(t) =>
            /\ Count(cnt[t], "release") = 1
            /\ res[t].kind = "ok" => Cardinality(Observable(t)) = Len(call[t].arg)
            /\ res[t].kind = "error" =>
                  /\ res[t].exc \in WorkOutcomes \ {OK}
                  /\ Observable(t) = {}

(***************************************************************************)
(* C29                                                                     *)
(***************************************************************************)
\* this step is a call of close_connection by thread t
ClosesConnection(t) == call'[t].op = "close" /\ ncalls'[t] = ncalls[t] + 1

\* the handles the step closes
ClosedByStep == {h \in 1..Len(handles) : handles'[h].closed /\ ~handles[h].closed}

\* C29: close_connection is idempotent: every call of it returns without
\* raising and leaves the manager with no client handle and no database
\* handle; it closes nothing but the client the manager held, which was open
\* until then, and a call that follows another on the same manager changes
\* neither the manager nor any client
C29_CloseIdempotent ==
    [][\A t \in Threads :
          ClosesConnection(t) =>
              LET i == call'[t].self IN
              /\ res'[t].kind = "ok"
              /\ inst'[i].client = NoId /\ inst'[i].db = NoId
              /\ Len(handles') = Len(handles)
              /\ ClosedByStep \subseteq {inst[i].client}
              /\ inst[i].client # NoId => ~handles[inst[i].client].closed
              /\ call'[t].prev = "returned" => UNCHANGED <<inst, handles>>]_vars

\* close_connection was called twice in a row on a manager that had a client
C29_Witness ==
    \E t \in Threads :
        /\ Finished(t, "close") /\ call[t].prev = "returned"
        /\ \E h \in 1..Len(handles) : handles[h].inst = Self(t) /\ handles[h].closed
        /\ inst[Self(t)].client = NoId

(***************************************************************************)
(* MongoDBConfig.__post_init__                                             *)
(***************************************************************************)
\* constructions of MongoDBConfig the threads may make in one behaviour
MaxConfigCalls == 2

valid_ssl_certs == {"CERT_REQUIRED", "CERT_OPTIONAL", "CERT_NONE"}

\* what the callers (and the YAML file behind Orchestrator._setup_mongodb) pass
Hosts == {"", "localhost"}
CertPolicies == valid_ssl_certs \cup {"CERT_ANY"}
WriteConcerns == {Dict(("w" :> PyInt(1)) @@ ("j" :> PyInt(1))), Dict("j" :> PyInt(1)),
                  Dict(<<>>), Str("majority")}

\* __post_init__ on the fields the dataclass has set: the exception it raises
\* (OK: none) and the fields it leaves
PostInitConfig(host, ssl_cert_reqs, write_concern) ==
    IF host = "" THEN [exc |-> "ValueError", config |-> <<>>]
    ELSE IF ssl_cert_reqs \notin valid_ssl_certs THEN [exc |-> "ValueError", config |-> <<>>]
    ELSE [exc |-> OK,
          config |-> <<[host |-> host, ssl_cert_reqs |-> ssl_cert_reqs,
                        write_concern |->
                          IF write_concern.kind = "dict" /\ "w" \notin DOMAIN write_concern.v
                          THEN Dict(write_concern.v @@ ("w" :> PyInt(1)))
                          ELSE write_concern]>>]

\* MongoDBConfig(host=..., ssl_cert_reqs=..., write_concern=...)
ConstructConfig(t, host, ssl_cert_reqs, write_concern) ==
    LET made == PostInitConfig(host, ssl_cert_reqs, write_concern) IN
    /\ pc[t] = "idle"
    /\ call' = [call EXCEPT ![t] = [NoCall EXCEPT !.op = "MongoDBConfig",
                                      !.arg = <<[host |-> host,
                                                 ssl_cert_reqs |-> ssl_cert_reqs,
                                                 write_concern |-> write_concern]>>]]
    /\ ncalls' = [ncalls EXCEPT ![t] = @ + 1]
    /\ cnt' = [cnt EXCEPT ![t] = NoCnt]
    /\ res' = [res EXCEPT ![t] =
                 IF made.exc = OK THEN [NoRes EXCEPT !.kind = "ok", !.sent = made.config]
                 ELSE [NoRes EXCEPT !.kind = "error", !.exc = made.exc]]
    /\ UNCHANGED <<instance, lock, inst, handles, pc, stk, known, faulted, users,
                   collection, target, pipe, orch>>

NextConfig ==
    \E t \in Threads :
        /\ Started < MaxConfigCalls
        /\ \E host \in Hosts, ssl_cert_reqs \in CertPolicies, write_concern \in WriteConcerns :
              ConstructConfig(t, host, ssl_cert_reqs, write_concern)

SpecConfig == Init /\ [][NextConfig]_vars

(***************************************************************************)
(* C30                                                                     *)
(***************************************************************************)
\* the arguments of thread t's construction and the config it made
Given(t) == call[t].arg[1]
Made(t) == res[t].sent[1]

HasW(write_concern) == write_concern.kind = "dict" /\ "w" \in DOMAIN write_concern.v

\* nothing was built, pinged or waited for
NoAttempt(t) == cnt[t] = NoCnt /\ handles = <<>>

\* C30: every successfully constructed config has a non-empty host, a write
\* concern that contains a w value and a cert policy among CERT_REQUIRED,
\* CERT_OPTIONAL and CERT_NONE; a construction with an empty host or another
\* cert policy raises, and no construction makes a connection attempt or waits
C30_ConfigValid ==
    \A t \in Threads :
        Finished(t, "MongoDBConfig") =>
            /\ NoAttempt(t)
            /\ res[t].kind = "ok" =>
                  /\ Made(t).host # ""
                  /\ Made(t).ssl_cert_reqs \in valid_ssl_certs
                  /\ HasW(Made(t).write_concern)
            /\ (Given(t).host = "" \/ Given(t).ssl_cert_reqs \notin valid_ssl_certs) =>
                  res[t].kind = "error" /\ res[t].exc = "ValueError"

(***************************************************************************)
(* MongoDBConfig.get_connection_string (mongodb_config.py, and the class   *)
(* of the same name in mongodb_manager.py, which has no enable_auth field) *)
(***************************************************************************)
\* constructions followed by get_connection_string in one behaviour
MaxUriCalls == 2

ConfigClasses == {"mongodb_config", "mongodb_manager"}

\* bool(x) of a field that holds None or a string
Truthy(x) == x # None /\ x # ""

\* the keyword arguments next to host="localhost", port=27017, database="d":
\* user and password both given or both left out, with or without
\* enable_auth=False
FieldValues ==
    {kw \in [user : {None, "u"}, password : {None, "p"}, auth_source : {"", "admin"},
           auth_mechanism : {"", "SCRAM-SHA-256"}, application_name : {"", "MongoDBManager"},
           replica_set : {None, "rs0"}, read_preference : {"", "primary"},
           retry_writes : BOOLEAN, retry_reads : BOOLEAN] :
        (kw.user = None) = (kw.password = None)}
ConfigKwargs ==
    FieldValues \cup {kw @@ ("enable_auth" :> FALSE) : kw \in FieldValues}

\* the dataclass __init__ of class cls: the exception it raises (OK: none) and
\* the fields of the config; enable_auth defaults to True where it is a field
NewConfig(cls, kwargs) ==
    IF cls = "mongodb_manager" /\ "enable_auth" \in DOMAIN kwargs
    THEN [exc |-> "TypeError", config |-> <<>>]
    ELSE [exc |-> OK,
          config |-> <<kwargs @@ [cls |-> cls, host |-> "localhost", port |-> 27017,
                                  database |-> "d", enable_auth |-> TRUE]>>]

\* str(port) inside the f-string
PortText(port) == IF port = 27017 THEN "27017" ELSE "0"

\* f"{name}={value}" if test else None, after [p for p in params if p]
Param(test, name, value) == IF test THEN <<<<name, "=", value>>>> ELSE <<>>

RECURSIVE Join(_)
\* "&".join(params)
Join(params) ==
    IF Len(params) = 0 THEN <<>>
    ELSE IF Len(params) = 1 THEN params[1]
    ELSE params[1] \o <<"&">> \o Join(Tail(params))

\* get_connection_string as it would be if authSource did not depend on
\* enable_auth
get_connection_string_AuthSourceAlways(cfg) ==
    LET auth == cfg.cls = "mongodb_manager" \/ cfg.enable_auth
        auth_part == IF auth /\ Truthy(cfg.user) /\ Truthy(cfg.password)
                     THEN <<cfg.user, ":", cfg.password, "@">> ELSE <<>>
        params ==
            Param(Truthy(cfg.auth_source), "authSource", cfg.auth_source)
            \o Param(auth /\ Truthy(cfg.auth_mechanism), "authMechanism", cfg.auth_mechanism)
            \o Param(Truthy(cfg.application_name), "appName", cfg.application_name)
            \o Param(Truthy(cfg.replica_set), "replicaSet", cfg.replica_set)
            \o Param(Truthy(cfg.read_preference), "readPreference", cfg.read_preference)
            \o Param(cfg.retry_writes, "retryWrites", "true")
            \o Param(cfg.retry_reads, "retryReads", "true")
    IN <<"mongodb://">> \o auth_part
       \o <<cfg.host, ":", PortText(cfg.port), "/", cfg.database>>
       \o (IF params # <<>> THEN <<"?">> \o Join(params) ELSE <<>>)

\* the connection string as the sequence of its pieces; the class of
\* mongodb_manager.py tests user, password, auth_source and auth_mechanism
\* alone, the one of mongodb_config.py together with enable_auth
get_connection_string(cfg) ==
    LET auth == cfg.cls = "mongodb_manager" \/ cfg.enable_auth
        auth_part == IF auth /\ Truthy(cfg.user) /\ Truthy(cfg.password)
                     THEN <<cfg.user, ":", cfg.password, "@">> ELSE <<>>
        params ==
            Param(auth /\ Truthy(cfg.auth_source), "authSource", cfg.auth_source)
            \o Param(auth /\ Truthy(cfg.auth_mechanism), "authMechanism", cfg.auth_mechanism)
            \o Param(Truthy(cfg.application_name), "appName", cfg.application_name)
            \o Param(Truthy(cfg.replica_set), "replicaSet", cfg.replica_set)
            \o Param(Truthy(cfg.read_preference), "readPreference", cfg.read_preference)
            \o Param(cfg.retry_writes, "retryWrites", "true")
            \o Param(cfg.retry_reads, "retryReads", "true")
    IN <<"mongodb://">> \o auth_part
       \o <<cfg.host, ":", PortText(cfg.port), "/", cfg.database>>
       \o (IF params # <<>> THEN <<"?">> \o Join(params) ELSE <<>>)

\* MongoDBConfig(host="localhost", port=27017, database="d", **kwargs)
\* .get_connection_string()
GetConnectionString(t, cls, kwargs) ==
    LET made == NewConfig(cls, kwargs) IN
    /\ pc[t] = "idle"
    /\ call' = [call EXCEPT ![t] = [NoCall EXCEPT !.op = "get_connection_string",
                                      !.cfg = cls, !.arg = <<kwargs>>]]
    /\ ncalls' = [ncalls EXCEPT ![t] = @ + 1]
    /\ cnt' = [cnt EXCEPT ![t] = NoCnt]
    /\ res' = [res EXCEPT ![t] =
                 IF made.exc = OK
                 THEN [NoRes EXCEPT !.kind = "ok",
                                    !.sent = get_connection_string(made.config[1])]
                 ELSE [NoRes EXCEPT !.kind = "error", !.exc = made.exc]]
    /\ UNCHANGED <<instance, lock, inst, handles, pc, stk, known, faulted, users,
                   collection, target, pipe, orch>>

NextUri ==
    /\ ncalls["t1"] < MaxUriCalls
    /\ \E cls \in ConfigClasses, kwargs \in ConfigKwargs : GetConnectionString("t1", cls, kwargs)

SpecUri == Init /\ [][NextUri]_vars

(***************************************************************************)
(* C31                                                                     *)
(***************************************************************************)
\* this step is a call of get_connection_string by thread t that returns
ReturnsConnectionString(t) ==
    /\ call'[t].op = "get_connection_string" /\ ncalls'[t] = ncalls[t] + 1
    /\ res'[t].kind = "ok"

\* how often the option name appears in the connection string uri, and
\* whether it appears with value
Times(uri, name) == Cardinality({k \in 1..Len(uri) : uri[k] = name})
Carries(uri, name, value) ==
    \E k \in 1..(Len(uri) - 2) : uri[k] = name /\ uri[k + 1] = "=" /\ uri[k + 2] = value

\* the options of the URI with, for the config cfg, whether the option is
\* enabled and the value it then has
UriOptions(cfg) ==
    {[name |-> "authSource", on |-> cfg.enable_auth /\ Truthy(cfg.auth_source),
      value |-> cfg.auth_source],
     [name |-> "authMechanism", on |-> cfg.enable_auth /\ Truthy(cfg.auth_mechanism),
      value |-> cfg.auth_mechanism],
     [name |-> "appName", on |-> Truthy(cfg.application_name),
      value |-> cfg.application_name],
     [name |-> "replicaSet", on |-> Truthy(cfg.replica_set), value |-> cfg.replica_set],
     [name |-> "readPreference", on |-> Truthy(cfg.read_preference),
      value |-> cfg.read_preference],
     [name |-> "retryWrites", on |-> cfg.retry_writes, value |-> "true"],
     [name |-> "retryReads", on |-> cfg.retry_reads, value |-> "true"]}

\* C31: get_connection_string is a pure function of the config: a call changes
\* no state of the manager, a call on a config equal to the one of the call
\* before returns the same string, and the string holds every enabled option
\* among authSource, authMechanism, appName, replicaSet, readPreference,
\* retryWrites and retryReads exactly once, with its value, and no disabled or
\* unset option
C31_ConnectionStringPure ==
    /\ [](\A t \in Threads :
            (Finished(t, "get_connection_string") /\ res[t].kind = "ok") =>
                LET cfg == NewConfig(call[t].cfg, call[t].arg[1]).config[1]
                    uri == res[t].sent
                IN \A o \in UriOptions(cfg) :
                      IF o.on THEN Times(uri, o.name) = 1 /\ Carries(uri, o.name, o.value)
                      ELSE Times(uri, o.name) = 0)
    /\ [][\A t \in Threads :
             ReturnsConnectionString(t) =>
                 /\ UNCHANGED <<instance, lock, inst, handles, known, users, collection>>
                 /\ (call[t].op = call'[t].op /\ call[t].cfg = call'[t].cfg
                        /\ call[t].arg = call'[t].arg) => res'[t] = res[t]]_vars

\* a second call has returned a string for a config with authentication
\* disabled, an auth source set and a replica set
C31_Witness ==
    /\ Finished("t1", "get_connection_string") /\ res["t1"].kind = "ok"
    /\ ncalls["t1"] = 2
    /\ "enable_auth" \in DOMAIN call["t1"].arg[1]
    /\ call["t1"].arg[1].auth_source = "admin"
    /\ call["t1"].arg[1].replica_set = "rs0"
    /\ Times(res["t1"].sent, "replicaSet") = 1

(***************************************************************************)
(* C32                                                                     *)
(***************************************************************************)
\* {host: localhost, port: 27017, database: d, enable_auth: false}, the other
\* fields at their defaults
PlainKwargs ==
    [user |-> None, password |-> None, auth_source |-> "admin",
     auth_mechanism |-> "SCRAM-SHA-256", application_name |-> "MongoDBManager",
     replica_set |-> None, read_preference |-> "primary", retry_writes |-> TRUE,
     retry_reads |-> TRUE, enable_auth |-> FALSE]

\* mongodb://localhost:27017/d
PlainUri == <<"mongodb://", "localhost", ":", "27017", "/", "d">>

\* C32: a config with authentication disabled, whatever user and password it
\* holds, gives a connection string with no credential segment and no
\* authSource parameter, and {host: localhost, port: 27017, database: d,
\* enable_auth: false} gives mongodb://localhost:27017/d
C32_AuthDisabledUri ==
    \A t \in Threads :
        (Finished(t, "get_connection_string") /\ "enable_auth" \in DOMAIN call[t].arg[1]) =>
            /\ res[t].kind = "ok"
            /\ Times(res[t].sent, "@") = 0
            /\ Times(res[t].sent, "authSource") = 0
            /\ call[t].arg[1] = PlainKwargs => res[t].sent = PlainUri

(***************************************************************************)
(* Orchestrator                                                            *)
(***************************************************************************)
\* calls of the Orchestrator constructor and methods in one behaviour
MaxOrchCalls == 3

DEFAULT_CONFIG_FILES == <<"project_structure_config.yaml", "app_config.yaml">>

\* the names connect_to_database is called with: the ones the YAML section
\* mongo_db_database_config has (each naming its config), and one it lacks
DatabaseNames == Configs \cup {"missing"}

\* Orchestrator(): _setup_logging, _initialize_config, _create_folder_structure,
\* the four fields set to None; database_name is None, so no _setup_mongodb
OrchestratorInit(t) ==
    LET made == <<Did("ConfigManager", <<DEFAULT_CONFIG_FILES, "./config">>),
                  Did("validate_config", <<>>),
                  Did("create_directories_from_yaml", <<"project_structure">>)>>
    IN
    /\ pc[t] = "idle" /\ ~orch.exists
    /\ call' = [call EXCEPT ![t] = [NoCall EXCEPT !.op = "Orchestrator"]]
    /\ ncalls' = [ncalls EXCEPT ![t] = @ + 1]
    /\ cnt' = [cnt EXCEPT ![t] = made]
    /\ res' = [res EXCEPT ![t] = [NoRes EXCEPT !.kind = "ok"]]
    /\ orch' = [NoOrch EXCEPT !.exists = TRUE, !.made = made]
    /\ UNCHANGED <<instance, lock, inst, handles, pc, stk, known, faulted, users,
                   collection, target, pipe>>

\* connect_with_config(config), or connect_to_database(name) -> _setup_mongodb:
\* ValueError when the YAML file has no config of that name; otherwise
\* self._mongo_db_config is set and MongoDBManager(config) is called
OrchestratorConnect(t, method, c) ==
    /\ orch.exists /\ orch.step = "none"
    /\ IF c \notin Configs
       THEN /\ CallAndReturn(t, [NoCall EXCEPT !.op = method, !.cfg = c], NoCnt,
                             "ValueError", FALSE)
            /\ UNCHANGED collection
       ELSE /\ Begin(t, [NoCall EXCEPT !.op = method, !.cfg = c])
            /\ stk' = [stk EXCEPT ![t] = <<Frame("__init__")>>]
            /\ pc' = [pc EXCEPT ![t] = "new_lock"]
            /\ orch' = [orch EXCEPT !.mongo_db_config = c, !.step = "manager"]
            /\ UNCHANGED <<instance, lock, inst, handles, known, faulted, users, collection,
                           target, pipe>>

\* MongoDBManager(config) has returned or raised: self._mongo_db_manager = ...,
\* then self._mongo_db_manager.get_database(config.database)
OrchestratorGetDatabase(t) ==
    /\ pc[t] = "idle" /\ orch.step = "manager"
    /\ IF res[t].kind = "error"
       THEN /\ orch' = [orch EXCEPT !.step = "none"]
            /\ UNCHANGED <<pc, stk, res>>
       ELSE /\ orch' = [orch EXCEPT !.mongo_db_manager = res[t].value, !.step = "database"]
            /\ stk' = [stk EXCEPT ![t] = <<Frame("get_client")>>]
            /\ pc' = [pc EXCEPT ![t] = "gc_check"]
            /\ res' = [res EXCEPT ![t] = NoRes]
    /\ UNCHANGED <<instance, lock, inst, handles, call, cnt, ncalls, known, faulted, users,
                   collection, target, pipe>>

\* get_database has returned client[config.database] or raised: self._db = ...,
\* then self._user_manager = self._mongo_db_manager.user_manager
OrchestratorUserManager(t) ==
    /\ pc[t] = "idle" /\ orch.step = "database"
    /\ IF res[t].kind = "error"
       THEN /\ orch' = [orch EXCEPT !.step = "none"]
            /\ UNCHANGED res
       ELSE /\ orch' = [orch EXCEPT !.db = [client |-> res[t].value, name |-> call[t].cfg],
                                    !.user_manager = IF "user_manager" \in ManagerMethods
                                                     THEN orch.mongo_db_manager ELSE @,
                                    !.step = "none"]
            /\ res' = [res EXCEPT ![t] =
                         IF "user_manager" \in ManagerMethods
                         THEN [NoRes EXCEPT !.kind = "ok"]
                         ELSE [NoRes EXCEPT !.kind = "error", !.exc = "AttributeError"]]
    /\ UNCHANGED <<instance, lock, inst, handles, pc, stk, call, cnt, ncalls, known, faulted,
                   users, collection, target, pipe>>

OrchestratorMethods == {"list_users", "create_user", "cleanup_collections_and_databases"}

\* the tests as they would be if they were left out
NoConnection_Never(method, db_manager) == OK

\* the exception of `raise RuntimeError("No database connection established")`,
\* OK when the method goes on: list_users and create_user test
\* self._user_manager, cleanup tests self._mongo_db_manager and its db_manager
\* argument
NoConnection(method, db_manager) ==
    IF method = "cleanup_collections_and_databases"
    THEN IF orch.mongo_db_manager = NoId /\ db_manager = NoId THEN "RuntimeError" ELSE OK
    ELSE IF orch.user_manager = NoId THEN "RuntimeError" ELSE OK

\* list_users(), create_user(...) or cleanup_collections_and_databases(...,
\* db_manager=db_manager); o: the outcome of the work once the test has passed
OrchestratorUse(t, method, db_manager, o) ==
    /\ orch.exists /\ orch.step = "none"
    /\ db_manager # NoId => method = "cleanup_collections_and_databases" /\ db_manager \in known
    /\ CallAndReturn(t, [NoCall EXCEPT !.op = method, !.self = db_manager],
                     IF NoConnection(method, db_manager) = OK THEN <<Did("call", o)>>
                     ELSE NoCnt,
                     IF NoConnection(method, db_manager) = OK THEN o
                     ELSE NoConnection(method, db_manager), FALSE)
    /\ UNCHANGED collection

\* a process constructs managers and an Orchestrator and uses it
NextOrchestrator ==
    \E t \in {"t1"} :
        \/ /\ ncalls[t] < MaxOrchCalls /\ orch.step = "none"
           /\ \/ OrchestratorInit(t)
              \/ \E c \in Configs : StartConstruct(t, c, FALSE)
              \/ \E method \in {"connect_with_config", "connect_to_database"},
                    c \in DatabaseNames : OrchestratorConnect(t, method, c)
              \/ \E method \in OrchestratorMethods, i \in InstIds \cup {NoId},
                    o \in SharedOutcomes : OrchestratorUse(t, method, i, o)
        \/ NewLock(t)
        \/ NewCheck(t)
        \/ NewCreate(t)
        \/ NewUnlock(t)
        \/ InitFields(t)
        \/ InitializeClientCheck(t)
        \/ \E o \in SharedOutcomes : InitializeClientBuild(t, o)
        \/ BackoffWait(t)
        \/ \E o \in SharedOutcomes : VerifyConnectionPing(t, o)
        \/ GetClientCheck(t)
        \/ \E o \in SharedOutcomes : GetClientPing(t, o)
        \/ OrchestratorGetDatabase(t)
        \/ OrchestratorUserManager(t)

SpecOrchestrator == Init /\ [][NextOrchestrator]_vars

(***************************************************************************)
(* C33                                                                     *)
(***************************************************************************)
\* an Orchestrator exists and none of its connect calls has got to
\* MongoDBManager(config)
Unconnected == orch.exists /\ orch.mongo_db_config = None

\* the constructor made the call named op exactly once, with the arguments args
MadeOnce(op, args) == Count(orch.made, op) = 1 /\ Outs(orch.made, op) = {args}

ConstructedOnce ==
    /\ MadeOnce("ConfigManager", <<DEFAULT_CONFIG_FILES, "./config">>)
    /\ MadeOnce("validate_config", <<>>)
    /\ MadeOnce("create_directories_from_yaml", <<"project_structure">>)

FieldsUnset ==
    /\ orch.mongo_db_manager = NoId /\ orch.user_manager = NoId
    /\ orch.db.client = NoId /\ orch.db.name = None

\* thread t's call of list_users, create_user or cleanup has ended with
\* RuntimeError('No database connection established'), having done nothing
RefusedUnconnected(t) == res[t].kind = "error" /\ res[t].exc = "RuntimeError" /\ cnt[t] = NoCnt

Transferred == {pipe.tables[k] : k \in {j \in 1..Len(pipe.tables) : j < pipe.ti}}

\* the queries of kind q the run has sent for table, and the offsets of its
\* row queries in the order they were sent
Queries(q, table) == {k \in 1..Len(pipe.fetched) :
                         pipe.fetched[k].q = q /\ pipe.fetched[k].table = table}
BatchesOf(table) == {k \in 1..Len(pipe.passed) : pipe.passed[k].table = table}

\* ceil(n / d) for d >= 1
CeilDiv(n, d) == (n + d - 1) \div d

RECURSIVE Flatten(_)
\* the documents of a sequence of batches, in order
Flatten(batches) ==
    IF batches = <<>> THEN <<>> ELSE batches[1].documents \o Flatten(Tail(batches))

\* the batches handed to create_many for table, in order
PassedFor(table) == SelectSeq(pipe.passed, LAMBDA b : b.table = table)

\* the count is read once, the windows are consecutive and ceil(total /
\* batch_size) batches of at most batch_size documents are inserted, total
\* documents in all
PagedOnce(table) ==
    LET total == Len(Source[table]) IN
    /\ Cardinality(Queries("count", table)) = 1
    /\ Cardinality(BatchesOf(table)) = CeilDiv(total, pipe.batch_size)
    /\ \A k \in Queries("rows", table) :
          pipe.fetched[k].offset =
              pipe.batch_size * Cardinality({j \in Queries("rows", table) : j < k})
    /\ \A k \in BatchesOf(table) : Len(pipe.passed[k].documents) <= pipe.batch_size
    /\ Len(Flatten(PassedFor(table))) = total

\* every row of table was inserted exactly once
EveryRowOnce(table) ==
    \A r \in 1..Len(Source[table]) :
        Occurrences(Flatten(PassedFor(table)),
                    convert_decimals_to_float(Source[table][r])) = 1

\* C34: when transfer_table_data has returned for a table whose rows did not
\* change, with batch size >= 1 and every insert successful, it has read the
\* row count once, issued ceil(total / batch_size) multi-inserts of at most
\* batch_size rows over consecutive windows, inserted total rows, and inserted
\* every source row exactly once
C34_EveryRowOnceInBatches ==
    \A table \in Transferred :
        (pipe.pending = None /\ pipe.batch_size >= 1) =>
            PagedOnce(table) /\ EveryRowOnce(table)

\* the row queries a transfer_table_data call may send in all: ceil(total /
\* batch_size) of them, a single one when batch_size is 0
FetchBound == IF pipe.batch_size = 0 THEN 1 ELSE CeilDiv(pipe.total_rows, pipe.batch_size)

\* this step sends a row query for the table being transferred
SendsRowQuery == pc["t1"] = "tt_loop" /\ Len(pipe'.fetched) > Len(pipe.fetched)

\* this step is an iteration of the loop coming round: the insert has returned
\* and the condition is tested again
ComesRound == pc["t1"] = "tt_insert" /\ pc'["t1"] = "tt_loop"

\* C35: transfer_data, once started, returns or propagates, for every batch
\* size >= 0 and whatever the tables hold each time they are queried; an
\* iteration of transfer_table_data's loop that comes round has strictly
\* advanced the offset, a row query is sent only while fewer than ceil(total /
\* batch_size) were sent for the table, and no table is visited twice
C35_TransferTerminates ==
    /\ [](\A table \in TableNames : Cardinality(Queries("count", table)) <= 1)
    /\ [][/\ ComesRound => pipe'.offset > pipe.offset
          /\ SendsRowQuery =>
                Cardinality(Queries("rows", pipe.tables[pipe.ti])) < FetchBound]_vars
    /\ (pc["t1"] # "idle") ~> (pc["t1"] = "idle")

\* transfer_data has ended after a run with batch size 1 in which table b, of
\* one row, was counted as two rows and then found empty at offset 1
C35_Witness ==
    /\ pc["t1"] = "idle"
    /\ pipe.pg = "closed"
    /\ pipe.batch_size = 1
    /\ Cardinality(Queries("rows", "b")) = 2
    /\ Cardinality(BatchesOf("b")) = 1

\* a connect method has run to the end of its assignments: manager and database
\* handle are set, and it has returned or failed on the last attribute it reads
ConnectDone ==
    /\ call["t1"].op \in {"connect_with_config", "connect_to_database"}
    /\ pc["t1"] = "idle" /\ orch.step = "none"
    /\ res["t1"].kind = "ok" \/ res["t1"].exc = "AttributeError"

\* C36: once a connect method of the orchestrator has set its manager and its
\* database handle, the manager holds the config just supplied and the client
\* behind the database handle was built from it, also when a MongoDBManager
\* was constructed earlier with another config
C36_ConnectUsesSuppliedConfig ==
    ConnectDone =>
        /\ inst[orch.mongo_db_manager].db_config = orch.mongo_db_config
        /\ handles[orch.db.client].cfg = orch.mongo_db_config

\* the document d carries the permission set the role table gives for its role
PermissionsOfRole(d) ==
    /\ "permissions" \in DOMAIN d
    /\ d.permissions = ROLE_PERMISSIONS[d.role]

\* C37: in every state reached by create_user, update_user, update_user_role,
\* activate_user and deactivate_user calls, none of which is given a
\* permissions field, every stored account with a role of the table carries
\* the permission set the table gives for that role
C37_PermissionsFollowRole ==
    \A k \in 1..Len(collection.docs) :
        KnownRole(RoleOf(collection.docs[k])) => PermissionsOfRole(collection.docs[k])

\* the document d has the fields create_user validates and stores: a username,
\* an email, a role of the table and a hashed secret
Validated(d) ==
    /\ {"username", "email", "hashed_password"} \subseteq DOMAIN d
    /\ d.username # "" /\ d.email # ""
    /\ KnownRole(RoleOf(d))

\* C38: a step that adds an account to the store is a step of create_user, so
\* update_user (with upsert or without), update_user_role, activate_user and
\* deactivate_user on a username that has no account add none, and every
\* stored account has a username, an email, a role of the table and a hashed
\* secret
C38_OnlyCreateAddsAccounts ==
    /\ [](\A k \in 1..Len(collection.docs) : Validated(collection.docs[k]))
    /\ [][Len(collection'.docs) > Len(collection.docs) =>
            \E t \in Threads : call[t].op = "create_user" /\ pc[t] # "idle"]_vars

\* the cursor and connection transfer_data opened are closed and the manager's
\* client handle is released
Released ==
    /\ pipe.pg = "closed"
    /\ inst[1].client = NoId
    /\ \A h \in 1..Len(handles) : handles[h].inst = 1 => handles[h].closed

\* what transfer_data hands its caller is what its body ended with: the
\* failure that ended it, nothing when it ran to its end
HandsOnOriginal ==
    IF pipe.pending # None THEN res["t1"].kind = "error" /\ res["t1"].exc = pipe.pending
    ELSE res["t1"].kind = "ok"

\* C39: whenever transfer_data has returned or propagated, whether it ran to
\* its end or was aborted by a failure, the cursor and connection it opened
\* are closed, the manager's client handle is released, and the error it
\* propagates, if any, is the failure that aborted it
C39_ReleasesOnEveryExit ==
    Finished("t1", "transfer_data") => Released /\ HandsOnOriginal

====
